---- MODULE Spec2Model ----
(***************************************************************************)
(* The exact-cover engine of src/src/dlx.rs (Arena: an arena of four-way   *)
(* linked nodes, cover/uncover, and the backtracking search                *)
(* solve_with_limit) as a state machine.  The arena is a function from     *)
(* node index (0 .. len-1) to a Node record; Option<T> is a sequence of    *)
(* length 0 (None) or 1 (Some).                                            *)
(***************************************************************************)
EXTENDS Integers, Sequences, FiniteSets

VARIABLES
    nodes,            \* Arena.nodes : Vec<Node>, indexed from 0
    primary_columns,  \* Arena.primary_columns
    cols,             \* history: the is_primary arguments of add_column, in call order
    rows,             \* history: the column lists of add_row, in call order
    phase,            \* "build" | "solve" | "done"
    calls,            \* the &mut Option<usize> budget of solve_with_limit
    stack,            \* the active invocations of solve_with_limit, outermost first
    ret,              \* the value the last finished invocation returned (<<>>: none pending)
    exhausted,        \* history: some invocation was entered with Some(0) remaining
    covers,           \* the cover_column calls not yet undone, oldest first
    undone,           \* history: the last uncover_column call (<<>>: none since the last cover)
    first,            \* history: the result of solve on a first arena built by the same calls
    puzzle,           \* history: the Puzzle and shapes build_arena built the arena from (<<>>: none)
    log,              \* history: the calls the search made, in the order it made them
    solved,           \* part_one: the AtomicUsize solved
    completed,        \* part_one: the AtomicUsize completed
    total,            \* part_one: puzzle_input.puzzles.len() (<<>>: the input is not read yet)
    tasks,            \* part_one: the closure of for_each on each puzzle, where it stands
    stderr,           \* part_one: the progress lines written
    answer,           \* part_one: the value returned (<<>>: not returned yet)
    unlinked          \* history: the last remove_horizontal / remove_vertical call made on its own (<<>>: none)

vars == <<nodes, primary_columns, cols, rows, phase, calls, stack, ret, exhausted,
          covers, undone, first, puzzle, log,
          solved, completed, total, tasks, stderr, answer, unlinked>>

\* The variables of part_one
counting == <<solved, completed, total, tasks, stderr, answer>>

\* The variables of the nested cover/uncover calls made outside a search
nest == <<covers, undone>>

\* Bounds of the model.
MaxColumns == 3
MaxRows == 3
MaxRowLen == 2
MaxBudget == 3
MaxWideRowLen == 3
MaxWidth == 2
MaxHeight == 2
MaxPieces == 3
MaxScenarioColumns == 5
MaxUsize == 3
MaxPuzzles == 3
MaxCells == 1

----------------------------------------------------------------------------
\* Node and Arena::new

Node(l, r, u, d, c) == [left |-> l, right |-> r, up |-> u, down |-> d, column |-> c]

NodesLen(ns) == Cardinality(DOMAIN ns)

Push(ns, n) == [i \in 0..NodesLen(ns) |-> IF i < NodesLen(ns) THEN ns[i] ELSE n]

new == [i \in {0} |-> Node(0, 0, 0, 0, 0)]

None == <<>>
Some(x) == <<x>>

----------------------------------------------------------------------------
\* Traversal
\*
\* A function of the code is an operator of the form
\*     f(x0) == LET body(x) == ... IN CHOOSE r \in {body(x) : x \in {x0}} : TRUE
\* whose value is body(x0): as in a call of the code, the arguments are
\* evaluated once, before the body.

get_next_index(ns, start_index, direction) == ns[start_index][direction]

\* The while loop of traverse: collects nodes until the ring closes on
\* start_index.  fuel bounds the unfolding; a ring of an arena of n nodes that
\* closes at all closes within n steps.
RECURSIVE traverse_loop(_, _, _, _, _)
traverse_loop(ns0, current_index0, start_index0, direction0, fuel0) ==
    LET body(ns, current_index, start_index, direction, fuel) ==
            IF current_index = start_index \/ fuel = 0
            THEN <<>>
            ELSE <<current_index>> \o
                 traverse_loop(ns, get_next_index(ns, current_index, direction),
                               start_index, direction, fuel - 1)
    IN  CHOOSE r \in {body(ns, current_index, start_index, direction, fuel) :
                       ns \in {ns0}, current_index \in {current_index0},
                       start_index \in {start_index0}, direction \in {direction0},
                       fuel \in {fuel0}} : TRUE

traverse(ns0, start_index0, direction0) ==
    LET body(ns, start_index, direction) ==
            traverse_loop(ns, get_next_index(ns, start_index, direction),
                          start_index, direction, NodesLen(ns))
    IN  CHOOSE r \in {body(ns, start_index, direction) :
                       ns \in {ns0}, start_index \in {start_index0},
                       direction \in {direction0}} : TRUE

\* Whether the while loop of traverse ends: the ring closes on start_index.
\* When it does not, the code never leaves the loop.
RECURSIVE returns_loop(_, _, _, _, _)
returns_loop(ns0, current_index0, start_index0, direction0, fuel0) ==
    LET body(ns, current_index, start_index, direction, fuel) ==
            IF current_index = start_index THEN TRUE
            ELSE IF fuel = 0 THEN FALSE
            ELSE returns_loop(ns, get_next_index(ns, current_index, direction),
                              start_index, direction, fuel - 1)
    IN  CHOOSE r \in {body(ns, current_index, start_index, direction, fuel) :
                       ns \in {ns0}, current_index \in {current_index0},
                       start_index \in {start_index0}, direction \in {direction0},
                       fuel \in {fuel0}} : TRUE

traverse_returns(ns0, start_index0, direction0) ==
    LET body(ns, start_index, direction) ==
            returns_loop(ns, get_next_index(ns, start_index, direction),
                         start_index, direction, NodesLen(ns))
    IN  CHOOSE r \in {body(ns, start_index, direction) :
                       ns \in {ns0}, start_index \in {start_index0},
                       direction \in {direction0}} : TRUE

\* The arena value that stands for a call that never returns (a Vec<Node>
\* built by Arena::new always holds node 0).
Hung == <<>>
IsHung(ns) == DOMAIN ns = {}

RECURSIVE get_headers_loop(_, _, _, _, _)
get_headers_loop(ns0, pc0, primary0, current_index0, fuel0) ==
    LET body(ns, pc, primary, current_index, fuel) ==
            IF current_index # 0 /\ (~primary \/ current_index <= pc) /\ fuel > 0
            THEN <<current_index>> \o
                 get_headers_loop(ns, pc, primary, ns[current_index].right, fuel - 1)
            ELSE <<>>
    IN  CHOOSE r \in {body(ns, pc, primary, current_index, fuel) :
                       ns \in {ns0}, pc \in {pc0}, primary \in {primary0},
                       current_index \in {current_index0}, fuel \in {fuel0}} : TRUE

\* get_headers listing every header of the ring, primary or not.
get_headers_every(ns, pc, primary) == get_headers_loop(ns, pc, FALSE, ns[0].right, NodesLen(ns))

get_headers(ns, pc, primary) == get_headers_loop(ns, pc, primary, ns[0].right, NodesLen(ns))

RECURSIVE headers_return_loop(_, _, _, _, _)
headers_return_loop(ns0, pc0, primary0, current_index0, fuel0) ==
    LET body(ns, pc, primary, current_index, fuel) ==
            IF ~(current_index # 0 /\ (~primary \/ current_index <= pc)) THEN TRUE
            ELSE IF fuel = 0 THEN FALSE
            ELSE headers_return_loop(ns, pc, primary, ns[current_index].right, fuel - 1)
    IN  CHOOSE r \in {body(ns, pc, primary, current_index, fuel) :
                       ns \in {ns0}, pc \in {pc0}, primary \in {primary0},
                       current_index \in {current_index0}, fuel \in {fuel0}} : TRUE

get_headers_returns(ns, pc, primary) ==
    headers_return_loop(ns, pc, primary, ns[0].right, NodesLen(ns))

get_column_nodes(ns, column_index) == traverse(ns, column_index, "down")
reverse_column_nodes(ns, column_index) == traverse(ns, column_index, "up")
get_row_nodes(ns, index) == traverse(ns, index, "right")
reverse_row_nodes(ns, index) == traverse(ns, index, "left")

----------------------------------------------------------------------------
\* Building

\* add_column_nodes without `self.nodes[last_column].right = new_index`.
add_column_nodes_unlinked(ns) ==
    LET new_index == NodesLen(ns)
        last_column == new_index - 1
        n1 == Push(ns, Node(last_column, 0, new_index, new_index, new_index))
    IN  [n1 EXCEPT ![0].left = new_index]

add_column_nodes(ns) ==
    LET new_index == NodesLen(ns)
        last_column == new_index - 1
        n1 == Push(ns, Node(last_column, 0, new_index, new_index, new_index))
        n2 == [n1 EXCEPT ![last_column].right = new_index]
    IN  [n2 EXCEPT ![0].left = new_index]

\* First loop of add_row: one node per listed column, linked at the bottom of
\* its column.  Returns the arena; the new nodes follow the old ones.
RECURSIVE add_row_vertical(_, _)
add_row_vertical(ns, columns) ==
    IF columns = <<>> \/ IsHung(ns) THEN ns
    ELSE IF ~traverse_returns(ns, Head(columns), "down") THEN Hung
    ELSE LET column == Head(columns)
             cn == get_column_nodes(ns, column)
             last_column_index == IF cn = <<>> THEN column ELSE cn[Len(cn)]
             new_index == NodesLen(ns)
             n1 == Push(ns, Node(0, 0, last_column_index, column, column))
             n2 == [n1 EXCEPT ![last_column_index].down = new_index]
             n3 == [n2 EXCEPT ![column].up = new_index]
         IN  add_row_vertical(n3, Tail(columns))

\* add_row_horizontal with left and right exchanged: the ring runs against
\* the order of row_indices.
add_row_horizontal_reversed(ns, row_start, k) ==
    [j \in DOMAIN ns |->
        IF j >= row_start /\ j < row_start + k
        THEN LET i == j - row_start
             IN  [ns[j] EXCEPT !.right = row_start + ((i + k - 1) % k),
                               !.left = row_start + ((i + 1) % k)]
        ELSE ns[j]]

\* add_row_horizontal setting only the right links of the new nodes.
add_row_horizontal_right_only(ns, row_start, k) ==
    [j \in DOMAIN ns |->
        IF j >= row_start /\ j < row_start + k
        THEN [ns[j] EXCEPT !.right = row_start + (((j - row_start) + 1) % k)]
        ELSE ns[j]]

\* Second loop of add_row: the horizontal ring over row_indices.
add_row_horizontal(ns, row_start, k) ==
    [j \in DOMAIN ns |->
        IF j >= row_start /\ j < row_start + k
        THEN LET i == j - row_start
             IN  [ns[j] EXCEPT !.left = row_start + ((i + k - 1) % k),
                               !.right = row_start + ((i + 1) % k)]
        ELSE ns[j]]

add_row(ns, columns) ==
    LET n1 == add_row_vertical(ns, columns)
    IN  IF IsHung(n1) THEN Hung
        ELSE add_row_horizontal(n1, NodesLen(ns), Len(columns))

----------------------------------------------------------------------------
\* Restore / remove

\* remove_horizontal also clearing the column field of the node unlinked.
remove_horizontal_clear_column(ns, index) ==
    LET n1 == [ns EXCEPT ![ns[index].left].right = ns[index].right]
        n2 == [n1 EXCEPT ![ns[index].right].left = ns[index].left]
    IN  [n2 EXCEPT ![index].column = 0]

remove_horizontal(ns0, index0) ==
    LET body(ns, index) ==
            LET left == ns[index].left
                right == ns[index].right
                n1 == [ns EXCEPT ![left].right = right]
            IN  [n1 EXCEPT ![right].left = left]
    IN  CHOOSE r \in {body(ns, index) : ns \in {ns0}, index \in {index0}} : TRUE

\* restore_horizontal setting the link of the left neighbour only.
restore_horizontal_left_only(ns, index) ==
    [ns EXCEPT ![ns[index].left].right = index]

restore_horizontal(ns0, index0) ==
    LET body(ns, index) ==
            LET left == ns[index].left
                right == ns[index].right
                n1 == [ns EXCEPT ![left].right = index]
            IN  [n1 EXCEPT ![right].left = index]
    IN  CHOOSE r \in {body(ns, index) : ns \in {ns0}, index \in {index0}} : TRUE

\* remove_vertical updating only the node below.
remove_vertical_below_only(ns, index) ==
    [ns EXCEPT ![ns[index].down].up = ns[index].up]

remove_vertical(ns0, index0) ==
    LET body(ns, index) ==
            LET up == ns[index].up
                down == ns[index].down
                n1 == [ns EXCEPT ![up].down = down]
            IN  [n1 EXCEPT ![down].up = up]
    IN  CHOOSE r \in {body(ns, index) : ns \in {ns0}, index \in {index0}} : TRUE

\* restore_vertical updating only the node above.
restore_vertical_above_only(ns, index) ==
    [ns EXCEPT ![ns[index].up].down = index]

restore_vertical(ns0, index0) ==
    LET body(ns, index) ==
            LET up == ns[index].up
                down == ns[index].down
                n1 == [ns EXCEPT ![up].down = index]
            IN  [n1 EXCEPT ![down].up = index]
    IN  CHOOSE r \in {body(ns, index) : ns \in {ns0}, index \in {index0}} : TRUE

\* cover_row removing no node: the rows of the covered column stay in the
\* other columns.
cover_row_skip(ns, row_nodes, index) == ns

\* The inner for loop of cover_column over one row.
RECURSIVE cover_row(_, _, _)
cover_row(ns0, row_nodes0, index0) ==
    LET body(ns, row_nodes, index) ==
            IF row_nodes = <<>> THEN ns
            ELSE cover_row(IF Head(row_nodes) # index
                           THEN remove_vertical(ns, Head(row_nodes)) ELSE ns,
                           Tail(row_nodes), index)
    IN  CHOOSE r \in {body(ns, row_nodes, index) :
                       ns \in {ns0}, row_nodes \in {row_nodes0}, index \in {index0}} : TRUE

\* The outer for loop of cover_column; the row of each node is read when its
\* iteration starts.
RECURSIVE cover_rows(_, _, _)
cover_rows(ns0, col_nodes0, index0) ==
    LET body(ns, col_nodes, index) ==
            IF col_nodes = <<>> \/ IsHung(ns) THEN ns
            ELSE IF ~traverse_returns(ns, Head(col_nodes), "right") THEN Hung
            ELSE cover_rows(cover_row(ns, get_row_nodes(ns, Head(col_nodes)), index),
                            Tail(col_nodes), index)
    IN  CHOOSE r \in {body(ns, col_nodes, index) :
                       ns \in {ns0}, col_nodes \in {col_nodes0}, index \in {index0}} : TRUE

\* cover_column leaving the header in the header ring.
cover_column_keep_header(ns, index) ==
    IF IsHung(ns) THEN Hung
    ELSE IF ~traverse_returns(ns, index, "down") THEN Hung
    ELSE cover_rows(ns, get_column_nodes(ns, index), index)

\* cover_column without its row loop: only the header is unlinked.
cover_column_header_only(ns, index) ==
    IF IsHung(ns) THEN Hung ELSE remove_horizontal(ns, index)

cover_column(ns0, index0) ==
    LET body(ns, index) ==
            IF IsHung(ns) THEN Hung
            ELSE LET n1 == remove_horizontal(ns, index)
                 IN  IF ~traverse_returns(n1, index, "down") THEN Hung
                     ELSE cover_rows(n1, get_column_nodes(n1, index), index)
    IN  CHOOSE r \in {body(ns, index) : ns \in {ns0}, index \in {index0}} : TRUE

\* uncover_row restoring no node: the rows of the uncovered column stay out of
\* the other columns.
uncover_row_skip(ns, row_nodes, index) == ns

RECURSIVE uncover_row(_, _, _)
uncover_row(ns0, row_nodes0, index0) ==
    LET body(ns, row_nodes, index) ==
            IF row_nodes = <<>> THEN ns
            ELSE uncover_row(IF Head(row_nodes) # index
                             THEN restore_vertical(ns, Head(row_nodes)) ELSE ns,
                             Tail(row_nodes), index)
    IN  CHOOSE r \in {body(ns, row_nodes, index) :
                       ns \in {ns0}, row_nodes \in {row_nodes0}, index \in {index0}} : TRUE

RECURSIVE uncover_rows(_, _, _)
uncover_rows(ns0, col_nodes0, index0) ==
    LET body(ns, col_nodes, index) ==
            IF col_nodes = <<>> \/ IsHung(ns) THEN ns
            ELSE IF ~traverse_returns(ns, Head(col_nodes), "left") THEN Hung
            ELSE uncover_rows(uncover_row(ns, reverse_row_nodes(ns, Head(col_nodes)), index),
                              Tail(col_nodes), index)
    IN  CHOOSE r \in {body(ns, col_nodes, index) :
                       ns \in {ns0}, col_nodes \in {col_nodes0}, index \in {index0}} : TRUE

\* uncover_column without its last statement: the header is not relinked.
uncover_column_no_header(ns, index) ==
    IF IsHung(ns) \/ ~traverse_returns(ns, index, "up") THEN Hung
    ELSE uncover_rows(ns, reverse_column_nodes(ns, index), index)

uncover_column(ns0, index0) ==
    LET body(ns, index) ==
            IF IsHung(ns) \/ ~traverse_returns(ns, index, "up") THEN Hung
            ELSE LET n1 == uncover_rows(ns, reverse_column_nodes(ns, index), index)
                 IN  IF IsHung(n1) THEN Hung ELSE restore_horizontal(n1, index)
    IN  CHOOSE r \in {body(ns, index) : ns \in {ns0}, index \in {index0}} : TRUE

----------------------------------------------------------------------------
\* Search: solve_with_limit, one frame of `stack` per active invocation.
\*   pc = "enter" : called, body not yet run
\*   pc = "loop"  : in `for row_index in rows`, about to take rows[i]
\*   pc = "call"  : waiting for the recursive call made for rows[i]

Frame(pc, depth, column, rs, i, row_nodes) ==
    [pc |-> pc, depth |-> depth, column |-> column, rows |-> rs, i |-> i,
     row_nodes |-> row_nodes]

EnterFrame(depth) == Frame("enter", depth, 0, <<>>, 0, <<>>)

Top == stack[Len(stack)]
Pop == SubSeq(stack, 1, Len(stack) - 1)
SetTop(f) == [stack EXCEPT ![Len(stack)] = f]

\* LimitExceeded never stopping the search.
LimitExceeded_never(c) == FALSE

\* LimitExceeded giving up with one call left.
LimitExceeded_early(c) == c # None /\ c[1] <= 1

\* `if let Some(remaining) = calls { if *remaining == 0 { return None } ... }`
LimitExceeded(c) == c # None /\ c[1] = 0

\* Decrement taking two calls off the budget.
Decrement_twice(c) == IF c = None THEN None ELSE Some(c[1] - 2)

\* `*remaining -= 1` for a supplied budget that passed the check
Decrement(c) == IF c = None THEN None ELSE Some(c[1] - 1)

\* min_by_key taking the first header whatever the keys.
min_by_key_first(ns, headers) == headers[1]

\* min_by_key taking the last header among those of minimal key.
min_by_key_last(ns, headers) ==
    LET key(c) == Len(get_column_nodes(ns, c))
        i == CHOOSE i \in 1..Len(headers) :
                 /\ \A j \in 1..Len(headers) : key(headers[i]) <= key(headers[j])
                 /\ \A j \in (i + 1)..Len(headers) : key(headers[j]) > key(headers[i])
    IN  headers[i]

\* headers.iter().min_by_key(|col| get_column_nodes(col).len()): the first
\* header among those of minimal key
min_by_key(ns0, headers0) ==
    LET body(ns, headers) ==
            LET key(c) == Len(get_column_nodes(ns, c))
                i == CHOOSE i \in 1..Len(headers) :
                         /\ \A j \in 1..Len(headers) : key(headers[i]) <= key(headers[j])
                         /\ \A j \in 1..(i - 1) : key(headers[j]) > key(headers[i])
            IN  headers[i]
    IN  CHOOSE r \in {body(ns, headers) : ns \in {ns0}, headers \in {headers0}} : TRUE

\* `for &node_index in &row_nodes { cover_column(nodes[node_index].column) }`
RECURSIVE cover_row_columns(_, _)
cover_row_columns(ns0, row_nodes0) ==
    LET body(ns, row_nodes) ==
            IF row_nodes = <<>> \/ IsHung(ns) THEN ns
            ELSE cover_row_columns(cover_column(ns, ns[Head(row_nodes)].column), Tail(row_nodes))
    IN  CHOOSE r \in {body(ns, row_nodes) :
                       ns \in {ns0}, row_nodes \in {row_nodes0}} : TRUE

\* `for &node_index in row_nodes.iter().rev() { uncover_column(...) }`
RECURSIVE uncover_row_columns(_, _)
uncover_row_columns(ns0, row_nodes0) ==
    LET body(ns, row_nodes) ==
            IF row_nodes = <<>> \/ IsHung(ns) THEN ns
            ELSE LET last == row_nodes[Len(row_nodes)]
                 IN  uncover_row_columns(uncover_column(ns, ns[last].column),
                                         SubSeq(row_nodes, 1, Len(row_nodes) - 1))
    IN  CHOOSE r \in {body(ns, row_nodes) :
                       ns \in {ns0}, row_nodes \in {row_nodes0}} : TRUE

\* The entries of `log`: the invocation at depth `depth` was called with the
\* budget `arg`, covered or uncovered the column `arg`, took the row `arg` in
\* its row loop, or returned `arg`.
Event(op, arg) == [op |-> op, depth |-> Top.depth, arg |-> arg]
CallEvent == Event("call", calls)
CoverEvent(c) == Event("cover", c)
UncoverEvent(c) == Event("uncover", c)
RowEvent(row_index) == Event("row", row_index)
ReturnEvent(v) == Event("return", v)

\* The cover_column calls of `for &node_index in &row_nodes`, in order
row_covers(ns, row_nodes) ==
    [k \in 1..Len(row_nodes) |-> CoverEvent(ns[row_nodes[k]].column)]

\* row_uncovers in the order of the covers.
row_uncovers_forward(ns, row_nodes) ==
    [k \in 1..Len(row_nodes) |-> UncoverEvent(ns[row_nodes[k]].column)]

\* The uncover_column calls of `for &node_index in row_nodes.iter().rev()`,
\* in order
row_uncovers(ns, row_nodes) ==
    [k \in 1..Len(row_nodes) |-> UncoverEvent(ns[row_nodes[Len(row_nodes) + 1 - k]].column)]

\* `return v` of the innermost invocation
Return(v) ==
    /\ stack' = Pop
    /\ ret' = Some(v)
    /\ phase' = IF Len(stack) = 1 THEN "done" ELSE "solve"

\* The column `column` is bound to once the headers are read
BranchColumn == min_by_key(nodes, get_headers(nodes, primary_columns, TRUE))

\* get_headers(true) and the get_column_nodes calls of min_by_key return
HeadersRead ==
    /\ get_headers_returns(nodes, primary_columns, TRUE)
    /\ \A i \in 1..Len(get_headers(nodes, primary_columns, TRUE)) :
          traverse_returns(nodes, get_headers(nodes, primary_columns, TRUE)[i], "down")

----------------------------------------------------------------------------
\* Initial state and actions

Budgets == {None} \cup {Some(n) : n \in 0..MaxBudget}

ColumnIds == 1..Len(cols)

\* Column lists without a repeated column
RowChoices ==
    {r \in UNION {[1..k -> ColumnIds] : k \in 0..MaxRowLen} :
        \A a, b \in DOMAIN r : a # b => r[a] # r[b]}

Init ==
    /\ nodes = new
    /\ primary_columns = 0
    /\ cols = <<>>
    /\ rows = <<>>
    /\ phase = "build"
    /\ calls = None
    /\ stack = <<>>
    /\ ret = <<>>
    /\ exhausted = FALSE
    /\ covers = <<>>
    /\ undone = <<>>
    /\ first = <<>>
    /\ puzzle = <<>>
    /\ log = <<>>
    /\ solved = 0
    /\ completed = 0
    /\ total = None
    /\ tasks = <<>>
    /\ stderr = <<>>
    /\ answer = None
    /\ unlinked = <<>>

\* AddColumn counting every column as primary.
AddColumn_counts_all ==
    /\ phase = "build"
    /\ rows = <<>>
    /\ Len(cols) < MaxColumns
    /\ \E primary \in BOOLEAN :
        /\ primary => \A i \in 1..Len(cols) : cols[i]
        /\ nodes' = add_column_nodes(nodes)
        /\ primary_columns' = primary_columns + 1
        /\ cols' = Append(cols, primary)
    /\ UNCHANGED <<rows, phase, calls, stack, ret, exhausted, nest, first, puzzle, log, counting, unlinked>>

\* Arena::add_column, under the caller contract: before any row, primary
\* columns before secondary ones
AddColumn ==
    /\ phase = "build"
    /\ rows = <<>>
    /\ Len(cols) < MaxColumns
    /\ \E primary \in BOOLEAN :
        /\ primary => \A i \in 1..Len(cols) : cols[i]
        /\ nodes' = add_column_nodes(nodes)
        /\ primary_columns' = IF primary THEN primary_columns + 1 ELSE primary_columns
        /\ cols' = Append(cols, primary)
    /\ UNCHANGED <<rows, phase, calls, stack, ret, exhausted, nest, first, puzzle, log, counting, unlinked>>

\* Arena::add_row, under the caller contract: existing columns, none repeated
AddRow ==
    /\ phase = "build"
    /\ Len(rows) < MaxRows
    /\ \E columns \in RowChoices :
        /\ ~IsHung(add_row(nodes, columns))
        /\ nodes' = add_row(nodes, columns)
        /\ rows' = Append(rows, columns)
    /\ UNCHANGED <<primary_columns, cols, phase, calls, stack, ret, exhausted, nest, first, puzzle, log, counting, unlinked>>

\* Arena::solve(depth) = solve_with_limit(depth, &mut None)
Solve ==
    /\ phase = "build"
    /\ phase' = "solve"
    /\ calls' = None
    /\ stack' = <<EnterFrame(0)>>
    /\ UNCHANGED <<nodes, primary_columns, cols, rows, ret, exhausted, nest, first, puzzle, log, counting, unlinked>>

\* Arena::solve_with_limit(depth, calls) with a supplied budget
SolveWithLimit ==
    /\ phase = "build"
    /\ phase' = "solve"
    /\ \E n \in 0..MaxBudget : calls' = Some(n)
    /\ stack' = <<EnterFrame(0)>>
    /\ UNCHANGED <<nodes, primary_columns, cols, rows, ret, exhausted, nest, first, puzzle, log, counting, unlinked>>

Entering == phase = "solve" /\ stack # <<>> /\ Top.pc = "enter"

\* SolveLimitExceeded returning the rows chosen so far instead of None.
SolveLimitExceeded_partial ==
    /\ Entering
    /\ LimitExceeded(calls)
    /\ Return(Some(<<>>))
    /\ exhausted' = TRUE
    /\ log' = log \o <<CallEvent, ReturnEvent(Some(<<>>))>>
    /\ UNCHANGED <<nodes, primary_columns, cols, rows, calls, nest, first, puzzle, counting, unlinked>>

\* lines 194-197: the budget is exhausted
SolveLimitExceeded ==
    /\ Entering
    /\ LimitExceeded(calls)
    /\ Return(None)
    /\ exhausted' = TRUE
    /\ log' = log \o <<CallEvent, ReturnEvent(None)>>
    /\ UNCHANGED <<nodes, primary_columns, cols, rows, calls, nest, first, puzzle, counting, unlinked>>

\* SolveComplete with the completeness test ahead of the budget test.
SolveComplete_before_limit ==
    /\ Entering
    /\ calls' = IF LimitExceeded(calls) THEN calls ELSE Decrement(calls)
    /\ HeadersRead
    /\ get_headers(nodes, primary_columns, TRUE) = <<>>
    /\ Return(Some(<<>>))
    /\ log' = log \o <<CallEvent, ReturnEvent(Some(<<>>))>>
    /\ UNCHANGED <<nodes, primary_columns, cols, rows, exhausted, nest, first, puzzle, counting, unlinked>>

\* lines 198-205: no primary header is left
SolveComplete ==
    /\ Entering
    /\ ~LimitExceeded(calls)
    /\ calls' = Decrement(calls)
    /\ HeadersRead
    /\ get_headers(nodes, primary_columns, TRUE) = <<>>
    /\ Return(Some(<<>>))
    /\ log' = log \o <<CallEvent, ReturnEvent(Some(<<>>))>>
    /\ UNCHANGED <<nodes, primary_columns, cols, rows, exhausted, nest, first, puzzle, counting, unlinked>>

\* lines 207-217: the chosen column has no row
SolveDeadEnd ==
    /\ Entering
    /\ ~LimitExceeded(calls)
    /\ calls' = Decrement(calls)
    /\ HeadersRead
    /\ get_headers(nodes, primary_columns, TRUE) # <<>>
    /\ get_column_nodes(nodes, BranchColumn) = <<>>
    /\ Return(None)
    /\ log' = log \o <<CallEvent, ReturnEvent(None)>>
    /\ UNCHANGED <<nodes, primary_columns, cols, rows, exhausted, nest, first, puzzle, counting, unlinked>>

\* SolveBranch branching on any primary header left, not on the one
\* min_by_key picks.
SolveBranch_any_column ==
    /\ Entering
    /\ ~LimitExceeded(calls)
    /\ calls' = Decrement(calls)
    /\ HeadersRead
    /\ \E k \in 1..Len(get_headers(nodes, primary_columns, TRUE)) :
        LET column == get_headers(nodes, primary_columns, TRUE)[k]
        IN  /\ get_column_nodes(nodes, column) # <<>>
            /\ ~IsHung(cover_column(nodes, column))
            /\ nodes' = cover_column(nodes, column)
            /\ log' = log \o <<CallEvent, CoverEvent(column)>>
            /\ stack' = SetTop(Frame("loop", Top.depth, column,
                                     get_column_nodes(nodes, column), 1, <<>>))
    /\ UNCHANGED <<primary_columns, cols, rows, phase, ret, exhausted, nest, first, puzzle, counting, unlinked>>

\* SolveBranch starting the row loop without covering the chosen column.
SolveBranch_no_cover ==
    /\ Entering
    /\ ~LimitExceeded(calls)
    /\ calls' = Decrement(calls)
    /\ HeadersRead
    /\ get_headers(nodes, primary_columns, TRUE) # <<>>
    /\ get_column_nodes(nodes, BranchColumn) # <<>>
    /\ stack' = SetTop(Frame("loop", Top.depth, BranchColumn,
                             get_column_nodes(nodes, BranchColumn), 1, <<>>))
    /\ log' = log \o <<CallEvent>>
    /\ UNCHANGED <<nodes, primary_columns, cols, rows, phase, ret, exhausted, nest, first, puzzle, counting, unlinked>>

\* lines 207-219: the chosen column is covered and the row loop starts
SolveBranch ==
    /\ Entering
    /\ ~LimitExceeded(calls)
    /\ calls' = Decrement(calls)
    /\ HeadersRead
    /\ get_headers(nodes, primary_columns, TRUE) # <<>>
    /\ get_column_nodes(nodes, BranchColumn) # <<>>
    /\ ~IsHung(cover_column(nodes, BranchColumn))
    /\ nodes' = cover_column(nodes, BranchColumn)
    /\ stack' = SetTop(Frame("loop", Top.depth, BranchColumn,
                             get_column_nodes(nodes, BranchColumn), 1, <<>>))
    /\ log' = log \o <<CallEvent, CoverEvent(BranchColumn)>>
    /\ UNCHANGED <<primary_columns, cols, rows, phase, ret, exhausted, nest, first, puzzle, counting, unlinked>>

\* lines 221-229: the next row's other columns are covered and the search recurses
SolveTryRow ==
    /\ phase = "solve" /\ stack # <<>> /\ Top.pc = "loop"
    /\ Top.i <= Len(Top.rows)
    /\ LET row_index == Top.rows[Top.i]
           row_nodes == get_row_nodes(nodes, row_index)
       IN  /\ traverse_returns(nodes, row_index, "right")
           /\ ~IsHung(cover_row_columns(nodes, row_nodes))
           /\ nodes' = cover_row_columns(nodes, row_nodes)
           /\ stack' = Append(SetTop([Top EXCEPT !.pc = "call", !.row_nodes = row_nodes]),
                              EnterFrame(Top.depth + 1))
    /\ log' = log \o <<RowEvent(Top.rows[Top.i])>>
                 \o row_covers(nodes, get_row_nodes(nodes, Top.rows[Top.i]))
    /\ UNCHANGED <<primary_columns, cols, rows, phase, calls, ret, exhausted, nest, first, puzzle, counting, unlinked>>

Returned == phase = "solve" /\ stack # <<>> /\ Top.pc = "call" /\ ret # <<>>

\* SolveRowSucceeded undoing its covers before it returns.
SolveRowSucceeded_uncover ==
    /\ Returned
    /\ ret[1] # None
    /\ nodes' = uncover_column(uncover_row_columns(nodes, Top.row_nodes), Top.column)
    /\ Return(Some(<<Top.rows[Top.i]>> \o ret[1][1]))
    /\ log' = log \o row_uncovers(nodes, Top.row_nodes)
                 \o <<UncoverEvent(Top.column),
                      ReturnEvent(Some(<<Top.rows[Top.i]>> \o ret[1][1]))>>
    /\ UNCHANGED <<primary_columns, cols, rows, calls, exhausted, nest, first, puzzle, counting, unlinked>>

\* SolveRowSucceeded appending the row's id to the sub-solution.
SolveRowSucceeded_append ==
    /\ Returned
    /\ ret[1] # None
    /\ Return(Some(ret[1][1] \o <<Top.rows[Top.i]>>))
    /\ log' = log \o <<ReturnEvent(Some(ret[1][1] \o <<Top.rows[Top.i]>>))>>
    /\ UNCHANGED <<nodes, primary_columns, cols, rows, calls, exhausted, nest, first, puzzle, counting, unlinked>>

\* lines 229-231: the recursive call returned Some(solution)
SolveRowSucceeded ==
    /\ Returned
    /\ ret[1] # None
    /\ Return(Some(<<Top.rows[Top.i]>> \o ret[1][1]))
    /\ log' = log \o <<ReturnEvent(Some(<<Top.rows[Top.i]>> \o ret[1][1]))>>
    /\ UNCHANGED <<nodes, primary_columns, cols, rows, calls, exhausted, nest, first, puzzle, counting, unlinked>>

\* SolveRowFailed leaving the row loop after the first failed row.
SolveRowFailed_break ==
    /\ Returned
    /\ ret[1] = None
    /\ ~IsHung(uncover_row_columns(nodes, Top.row_nodes))
    /\ nodes' = uncover_row_columns(nodes, Top.row_nodes)
    /\ stack' = SetTop([Top EXCEPT !.pc = "loop", !.i = Len(Top.rows) + 1,
                                   !.row_nodes = <<>>])
    /\ ret' = <<>>
    /\ log' = log \o row_uncovers(nodes, Top.row_nodes)
    /\ UNCHANGED <<primary_columns, cols, rows, phase, calls, exhausted, nest, first, puzzle, counting, unlinked>>

\* SolveRowFailed never leaving its uncover loop: the invocation stays where
\* the recursive call returned.
SolveRowFailed_spin ==
    /\ Returned
    /\ ret[1] = None
    /\ UNCHANGED vars

\* SolveRowFailed leaving the failed row's other columns covered.
SolveRowFailed_no_uncover ==
    /\ Returned
    /\ ret[1] = None
    /\ stack' = SetTop([Top EXCEPT !.pc = "loop", !.i = Top.i + 1, !.row_nodes = <<>>])
    /\ ret' = <<>>
    /\ UNCHANGED <<nodes, primary_columns, cols, rows, phase, calls, exhausted, nest, first, puzzle, log, counting, unlinked>>

\* lines 233-237: the recursive call returned None
SolveRowFailed ==
    /\ Returned
    /\ ret[1] = None
    /\ ~IsHung(uncover_row_columns(nodes, Top.row_nodes))
    /\ nodes' = uncover_row_columns(nodes, Top.row_nodes)
    /\ stack' = SetTop([Top EXCEPT !.pc = "loop", !.i = Top.i + 1, !.row_nodes = <<>>])
    /\ ret' = <<>>
    /\ log' = log \o row_uncovers(nodes, Top.row_nodes)
    /\ UNCHANGED <<primary_columns, cols, rows, phase, calls, exhausted, nest, first, puzzle, counting, unlinked>>

\* SolveRowsExhausted returning None without uncovering the branching column.
SolveRowsExhausted_no_uncover ==
    /\ phase = "solve" /\ stack # <<>> /\ Top.pc = "loop"
    /\ Top.i > Len(Top.rows)
    /\ Return(None)
    /\ log' = log \o <<ReturnEvent(None)>>
    /\ UNCHANGED <<nodes, primary_columns, cols, rows, calls, exhausted, nest, first, puzzle, counting, unlinked>>

\* lines 240-241: every row failed
SolveRowsExhausted ==
    /\ phase = "solve" /\ stack # <<>> /\ Top.pc = "loop"
    /\ Top.i > Len(Top.rows)
    /\ ~IsHung(uncover_column(nodes, Top.column))
    /\ nodes' = uncover_column(nodes, Top.column)
    /\ Return(None)
    /\ log' = log \o <<UncoverEvent(Top.column), ReturnEvent(None)>>
    /\ UNCHANGED <<primary_columns, cols, rows, calls, exhausted, nest, first, puzzle, counting, unlinked>>

SolveStep ==
    \/ SolveLimitExceeded
    \/ SolveComplete
    \/ SolveDeadEnd
    \/ SolveBranch
    \/ SolveTryRow
    \/ SolveRowSucceeded
    \/ SolveRowFailed
    \/ SolveRowsExhausted

Next ==
    \/ AddColumn
    \/ AddRow
    \/ Solve
    \/ SolveWithLimit
    \/ SolveStep

Spec == Init /\ [][Next]_vars

\* Arena::solve alone: the search with no budget, where the budget check never
\* returns.
SolveStepNoLimit ==
    \/ SolveComplete
    \/ SolveDeadEnd
    \/ SolveBranch
    \/ SolveTryRow
    \/ SolveRowSucceeded
    \/ SolveRowFailed
    \/ SolveRowsExhausted

NextNoLimit ==
    \/ AddColumn
    \/ AddRow
    \/ Solve
    \/ SolveStepNoLimit

\* A call of solve runs on one thread with nothing to wait for: a step of the
\* search that can be taken is taken.  The caller may stop building, or never
\* call solve, at any point.
SpecFair == Init /\ [][NextNoLimit]_vars /\ WF_vars(SolveStepNoLimit)

----------------------------------------------------------------------------
\* Two arenas built by the same calls, each solved with no budget.

RECURSIVE build_columns(_, _)
\* k calls of add_column on the arena ns
build_columns(ns, k) ==
    IF k = 0 THEN ns ELSE build_columns(add_column_nodes(ns), k - 1)

RECURSIVE build_rows(_, _)
\* One call of add_row on the arena ns for each column list of rs, in order
build_rows(ns, rs) ==
    IF rs = <<>> \/ IsHung(ns) THEN ns ELSE build_rows(add_row(ns, Head(rs)), Tail(rs))

\* Once solve has returned on the first arena: Arena::new(), the add_column and
\* add_row calls that built the first arena, and solve on the arena they build.
SolveAgain ==
    /\ phase = "done"
    /\ calls = None
    /\ first = <<>>
    /\ first' = Some(ret[1])
    /\ ~IsHung(build_rows(build_columns(new, Len(cols)), rows))
    /\ nodes' = build_rows(build_columns(new, Len(cols)), rows)
    /\ primary_columns' = Cardinality({c \in ColumnIds : cols[c]})
    /\ phase' = "solve"
    /\ stack' = <<EnterFrame(0)>>
    /\ ret' = <<>>
    /\ log' = <<>>
    /\ UNCHANGED <<cols, rows, calls, exhausted, nest, puzzle, counting, unlinked>>

NextTwice ==
    \/ AddColumn
    \/ AddRow
    \/ Solve
    \/ SolveStepNoLimit
    \/ SolveAgain

SpecTwice == Init /\ [][NextTwice]_vars

----------------------------------------------------------------------------
\* A second solve on the arena as the first solve left it.

\* Once solve has returned: solve again, on the same arena, not rebuilt.
SolveReuse ==
    /\ phase = "done"
    /\ calls = None
    /\ first = <<>>
    /\ first' = Some(ret[1])
    /\ phase' = "solve"
    /\ stack' = <<EnterFrame(0)>>
    /\ ret' = <<>>
    /\ log' = <<>>
    /\ UNCHANGED <<nodes, primary_columns, cols, rows, calls, exhausted, nest, puzzle, counting, unlinked>>

NextReuse ==
    \/ AddColumn
    \/ AddRow
    \/ Solve
    \/ SolveStepNoLimit
    \/ SolveReuse

SpecReuse == Init /\ [][NextReuse]_vars

----------------------------------------------------------------------------
\* solve(depth) for any depth: `depth` is a usize, here of the width that
\* makes MaxUsize its largest value, and `depth + 1` of the recursive call
\* overflows when depth is MaxUsize.  A build with overflow checks (the
\* default of a debug build) panics there; a build without them (the default
\* of a release build) wraps to 0.

\* Arena::solve(depth) = solve_with_limit(depth, &mut None)
SolveDepth ==
    /\ phase = "build"
    /\ phase' = "solve"
    /\ calls' = None
    /\ \E depth \in 0..MaxUsize : stack' = <<EnterFrame(depth)>>
    /\ UNCHANGED <<nodes, primary_columns, cols, rows, ret, exhausted, nest, first, puzzle, log, counting, unlinked>>

\* lines 221-229 where depth + 1 does not overflow
SolveTryRowInRange ==
    /\ phase = "solve" /\ stack # <<>> /\ Top.pc = "loop"
    /\ Top.depth < MaxUsize
    /\ SolveTryRow

\* lines 221-229 where depth + 1 overflows, overflow checks on: the row's
\* other columns are covered, then the addition panics
SolveTryRowPanic ==
    /\ phase = "solve" /\ stack # <<>> /\ Top.pc = "loop"
    /\ Top.i <= Len(Top.rows)
    /\ Top.depth = MaxUsize
    /\ LET row_index == Top.rows[Top.i]
           row_nodes == get_row_nodes(nodes, row_index)
       IN  /\ traverse_returns(nodes, row_index, "right")
           /\ ~IsHung(cover_row_columns(nodes, row_nodes))
           /\ nodes' = cover_row_columns(nodes, row_nodes)
           /\ log' = log \o <<RowEvent(row_index)>> \o row_covers(nodes, row_nodes)
    /\ phase' = "panic"
    /\ UNCHANGED <<primary_columns, cols, rows, calls, stack, ret, exhausted, nest, first, puzzle, counting, unlinked>>

\* lines 221-229 where depth + 1 overflows, overflow checks off: the
\* recursive call is made with depth 0
SolveTryRowWrap ==
    /\ phase = "solve" /\ stack # <<>> /\ Top.pc = "loop"
    /\ Top.i <= Len(Top.rows)
    /\ Top.depth = MaxUsize
    /\ LET row_index == Top.rows[Top.i]
           row_nodes == get_row_nodes(nodes, row_index)
       IN  /\ traverse_returns(nodes, row_index, "right")
           /\ ~IsHung(cover_row_columns(nodes, row_nodes))
           /\ nodes' = cover_row_columns(nodes, row_nodes)
           /\ log' = log \o <<RowEvent(row_index)>> \o row_covers(nodes, row_nodes)
           /\ stack' = Append(SetTop([Top EXCEPT !.pc = "call", !.row_nodes = row_nodes]),
                              EnterFrame((Top.depth + 1) % (MaxUsize + 1)))
    /\ UNCHANGED <<primary_columns, cols, rows, phase, calls, ret, exhausted, nest, first, puzzle, counting, unlinked>>

\* Once solve(depth) has returned on the first arena: Arena::new(), the
\* add_column and add_row calls that built the first arena, and
\* solve_with_limit(depth, &mut None) with any depth on the arena they build.
SolveAgainDepth ==
    /\ phase = "done"
    /\ first = <<>>
    /\ first' = <<ret[1], nodes>>
    /\ ~IsHung(build_rows(build_columns(new, Len(cols)), rows))
    /\ nodes' = build_rows(build_columns(new, Len(cols)), rows)
    /\ primary_columns' = Cardinality({c \in ColumnIds : cols[c]})
    /\ phase' = "solve"
    /\ \E depth \in 0..MaxUsize : stack' = <<EnterFrame(depth)>>
    /\ ret' = <<>>
    /\ log' = <<>>
    /\ UNCHANGED <<cols, rows, calls, exhausted, nest, puzzle, counting, unlinked>>

NextDepth ==
    \/ AddColumn
    \/ AddRow
    \/ SolveDepth
    \/ SolveComplete
    \/ SolveDeadEnd
    \/ SolveBranch
    \/ SolveTryRowInRange
    \/ SolveTryRowPanic
    \/ SolveTryRowWrap
    \/ SolveRowSucceeded
    \/ SolveRowFailed
    \/ SolveRowsExhausted
    \/ SolveAgainDepth

SpecDepth == Init /\ [][NextDepth]_vars

----------------------------------------------------------------------------
\* Construction alone, with rows of up to MaxWideRowLen columns.

\* Column lists without a repeated column, of up to MaxWideRowLen columns
WideRowChoices ==
    {r \in UNION {[1..k -> ColumnIds] : k \in 0..MaxWideRowLen} :
        \A a, b \in DOMAIN r : a # b => r[a] # r[b]}

\* Arena::add_row, under the caller contract: existing columns, none repeated
AddRowWide ==
    /\ phase = "build"
    /\ Len(rows) < MaxRows
    /\ \E columns \in WideRowChoices :
        /\ ~IsHung(add_row(nodes, columns))
        /\ nodes' = add_row(nodes, columns)
        /\ rows' = Append(rows, columns)
    /\ UNCHANGED <<primary_columns, cols, phase, calls, stack, ret, exhausted, nest, first, puzzle, log, counting, unlinked>>

NextBuild ==
    \/ AddColumn
    \/ AddRowWide

SpecBuild == Init /\ [][NextBuild]_vars

----------------------------------------------------------------------------
\* Construction in any order: add_column called after add_row.

\* Arena::add_column once a row has been added; the code is the same, and the
\* id returned is the index of the new node.  No add_row and no solve follows.
AddColumnLate ==
    /\ phase \in {"build", "late"}
    /\ rows # <<>>
    /\ Len(cols) < MaxColumns
    /\ phase' = "late"
    /\ \E primary \in BOOLEAN :
        /\ primary => \A i \in 1..Len(cols) : cols[i]
        /\ nodes' = add_column_nodes(nodes)
        /\ primary_columns' = IF primary THEN primary_columns + 1 ELSE primary_columns
        /\ cols' = Append(cols, primary)
    /\ UNCHANGED <<rows, calls, stack, ret, exhausted, nest, first, puzzle, log, counting, unlinked>>

NextAnyOrder ==
    \/ AddColumn
    \/ AddRow
    \/ AddColumnLate

SpecAnyOrder == Init /\ [][NextAnyOrder]_vars

----------------------------------------------------------------------------
\* Construction with rows of up to MaxWideRowLen columns, and the search on
\* the arena built, with or without a budget.
NextWide ==
    \/ AddColumn
    \/ AddRowWide
    \/ Solve
    \/ SolveWithLimit
    \/ SolveStep

SpecWide == Init /\ [][NextWide]_vars

----------------------------------------------------------------------------
\* Nested cover_column / uncover_column calls on a built arena, as
\* solve_with_limit nests them: a column is covered while its header is in the
\* header ring, and the call undone is the last one not yet undone.

\* cover_column(c)
CoverColumn ==
    /\ phase \in {"build", "cover"}
    /\ phase' = "cover"
    /\ get_headers_returns(nodes, primary_columns, FALSE)
    /\ \E i \in 1..Len(get_headers(nodes, primary_columns, FALSE)) :
        LET c == get_headers(nodes, primary_columns, FALSE)[i]
        IN  /\ ~IsHung(cover_column(nodes, c))
            /\ nodes' = cover_column(nodes, c)
            /\ covers' = Append([k \in 1..Len(covers) |-> [covers[k] EXCEPT !.fresh = FALSE]],
                                [column |-> c, before |-> nodes, fresh |-> TRUE])
    /\ undone' = <<>>
    /\ UNCHANGED <<primary_columns, cols, rows, calls, stack, ret, exhausted, first, puzzle, log, counting, unlinked>>

\* uncover_column(c) for the last column covered
UncoverColumn ==
    /\ phase = "cover"
    /\ covers # <<>>
    /\ LET last == covers[Len(covers)]
       IN  /\ ~IsHung(uncover_column(nodes, last.column))
           /\ nodes' = uncover_column(nodes, last.column)
           /\ undone' = <<[column |-> last.column, before |-> last.before,
                           covered |-> nodes, immediate |-> last.fresh]>>
    /\ covers' = SubSeq(covers, 1, Len(covers) - 1)
    /\ UNCHANGED <<primary_columns, cols, rows, phase, calls, stack, ret, exhausted, first, puzzle, log, counting, unlinked>>

NextCover ==
    \/ AddColumn
    \/ AddRow
    \/ CoverColumn
    \/ UncoverColumn

SpecCover == Init /\ [][NextCover]_vars

----------------------------------------------------------------------------
\* remove_horizontal / restore_horizontal and remove_vertical /
\* restore_vertical called on their own on a built arena, as test_horizontal
\* and test_vertical call them: one node is unlinked, then linked back.

\* index is linked in its horizontal ring
LinkedHorizontal(ns, index) ==
    /\ ns[ns[index].left].right = index
    /\ ns[ns[index].right].left = index

\* index is linked in its vertical ring
LinkedVertical(ns, index) ==
    /\ ns[ns[index].up].down = index
    /\ ns[ns[index].down].up = index

NoneUnlinked == IF unlinked = <<>> THEN TRUE ELSE unlinked[1].restored

RemoveHorizontal ==
    /\ phase \in {"build", "unlink"}
    /\ NoneUnlinked
    /\ \E index \in DOMAIN nodes :
        /\ LinkedHorizontal(nodes, index)
        /\ nodes' = remove_horizontal(nodes, index)
        /\ unlinked' = <<[index |-> index, ring |-> "horizontal", before |-> nodes,
                          restored |-> FALSE]>>
    /\ phase' = "unlink"
    /\ UNCHANGED <<primary_columns, cols, rows, calls, stack, ret, exhausted, nest, first,
                   puzzle, log, counting>>

RestoreHorizontal ==
    /\ phase = "unlink"
    /\ ~NoneUnlinked
    /\ unlinked[1].ring = "horizontal"
    /\ nodes' = restore_horizontal(nodes, unlinked[1].index)
    /\ unlinked' = <<[unlinked[1] EXCEPT !.restored = TRUE]>>
    /\ UNCHANGED <<primary_columns, cols, rows, phase, calls, stack, ret, exhausted, nest,
                   first, puzzle, log, counting>>

RemoveVertical ==
    /\ phase \in {"build", "unlink"}
    /\ NoneUnlinked
    /\ \E index \in DOMAIN nodes :
        /\ LinkedVertical(nodes, index)
        /\ nodes' = remove_vertical(nodes, index)
        /\ unlinked' = <<[index |-> index, ring |-> "vertical", before |-> nodes,
                          restored |-> FALSE]>>
    /\ phase' = "unlink"
    /\ UNCHANGED <<primary_columns, cols, rows, calls, stack, ret, exhausted, nest, first,
                   puzzle, log, counting>>

RestoreVertical ==
    /\ phase = "unlink"
    /\ ~NoneUnlinked
    /\ unlinked[1].ring = "vertical"
    /\ nodes' = restore_vertical(nodes, unlinked[1].index)
    /\ unlinked' = <<[unlinked[1] EXCEPT !.restored = TRUE]>>
    /\ UNCHANGED <<primary_columns, cols, rows, phase, calls, stack, ret, exhausted, nest,
                   first, puzzle, log, counting>>

NextUnlink ==
    \/ AddColumn
    \/ AddRow
    \/ RemoveHorizontal
    \/ RestoreHorizontal
    \/ RemoveVertical
    \/ RestoreVertical

SpecUnlink == Init /\ [][NextUnlink]_vars

----------------------------------------------------------------------------
\* Every operation of the arena: construction, solve with or without a
\* budget, and cover_column / uncover_column on a built arena.
NextAll ==
    \/ Next
    \/ CoverColumn
    \/ UncoverColumn

SpecAll == Init /\ [][NextAll]_vars

----------------------------------------------------------------------------
\* The instances of the tests (test_solve, test_solve_with_secondary,
\* test_building) and the instances made of their rows: up to
\* MaxScenarioColumns columns, and rows drawn from the rows of the tests.

\* The column lists the tests pass to add_row
ScenarioRows == {<<1>>, <<1, 5>>, <<1, 2>>, <<2, 3>>}

\* Arena::add_column, under the caller contract, for up to MaxScenarioColumns
\* columns
AddColumnScenario ==
    /\ phase = "build"
    /\ rows = <<>>
    /\ Len(cols) < MaxScenarioColumns
    /\ \E primary \in BOOLEAN :
        /\ primary => \A i \in 1..Len(cols) : cols[i]
        /\ nodes' = add_column_nodes(nodes)
        /\ primary_columns' = IF primary THEN primary_columns + 1 ELSE primary_columns
        /\ cols' = Append(cols, primary)
    /\ UNCHANGED <<rows, phase, calls, stack, ret, exhausted, nest, first, puzzle, log, counting, unlinked>>

\* Arena::add_row with one of the tests' column lists, its columns existing
AddRowScenario ==
    /\ phase = "build"
    /\ Len(rows) < MaxRows
    /\ \E columns \in ScenarioRows :
        /\ \A k \in 1..Len(columns) : columns[k] \in ColumnIds
        /\ ~IsHung(add_row(nodes, columns))
        /\ nodes' = add_row(nodes, columns)
        /\ rows' = Append(rows, columns)
    /\ UNCHANGED <<primary_columns, cols, phase, calls, stack, ret, exhausted, nest, first, puzzle, log, counting, unlinked>>

NextScenario ==
    \/ AddColumnScenario
    \/ AddRowScenario
    \/ Solve
    \/ SolveStepNoLimit
    \/ CoverColumn
    \/ UncoverColumn

SpecScenario == Init /\ [][NextScenario]_vars

----------------------------------------------------------------------------
\* The packing application of src/src/bin/12.rs: shapes, their permutations,
\* and the matrix build_arena makes of a Puzzle.  A Point is <<row, col>>.

\* The eight transforms of generate_permutations, in the order of its vec!
transform(k, p) ==
    CASE k = 1 -> <<p[1], p[2]>>
      [] k = 2 -> <<p[2], -p[1]>>
      [] k = 3 -> <<-p[1], -p[2]>>
      [] k = 4 -> <<-p[2], p[1]>>
      [] k = 5 -> <<-p[1], p[2]>>
      [] k = 6 -> <<p[2], p[1]>>
      [] k = 7 -> <<p[1], -p[2]>>
      [] k = 8 -> <<-p[2], -p[1]>>

apply_transform(points, k) == [i \in 1..Len(points) |-> transform(k, points[i])]

\* iter().min() over a non-empty list of integers
MinOf(S) == CHOOSE x \in S : \A y \in S : x <= y

normalize(points) ==
    LET min_row == MinOf({points[i][1] : i \in 1..Len(points)})
        min_col == MinOf({points[i][2] : i \in 1..Len(points)})
    IN  [i \in 1..Len(points) |-> <<points[i][1] - min_row, points[i][2] - min_col>>]

\* The derived Ord of Point: by row, then by column
PointLess(p, q) == p[1] < q[1] \/ (p[1] = q[1] /\ p[2] < q[2])

RECURSIVE sort(_)
\* Vec::sort: the points in ascending order, equal points kept in order
sort(points) ==
    IF points = <<>> THEN <<>>
    ELSE LET rest == sort(SubSeq(points, 1, Len(points) - 1))
             p == points[Len(points)]
             n == Cardinality({i \in 1..Len(rest) : ~PointLess(p, rest[i])})
         IN  SubSeq(rest, 1, n) \o <<p>> \o SubSeq(rest, n + 1, Len(rest))

RECURSIVE unique(_)
\* Itertools::unique: the first occurrence of each element, in order
unique(s) ==
    IF s = <<>> THEN <<>>
    ELSE LET rest == unique(SubSeq(s, 1, Len(s) - 1))
             x == s[Len(s)]
         IN  IF \E i \in 1..Len(rest) : rest[i] = x THEN rest ELSE Append(rest, x)

generate_permutations(points) ==
    unique([k \in 1..8 |-> sort(normalize(apply_transform(points, k)))])

\* The shapes of the input, by index: one cell, two cells in a line, three
\* cells in a corner; the points as Shape::from_input reads them, row by row.
ShapePoints ==
    [i \in 0..2 |->
        CASE i = 0 -> << <<0, 0>> >>
          [] i = 1 -> << <<0, 0>>, <<0, 1>> >>
          [] i = 2 -> << <<0, 0>>, <<1, 0>>, <<1, 1>> >>]

\* Shape.permutations of the shape of index i
permutations(i) == generate_permutations(ShapePoints[i])

RECURSIVE Repeat(_, _)
\* `for _ in 0..count { pieces.push(index) }`
Repeat(index, count) == IF count = 0 THEN <<>> ELSE <<index>> \o Repeat(index, count - 1)

RECURSIVE necessary_piece_indices(_, _)
\* requirements maps a shape index to a count; order is the order in which
\* the HashMap is iterated, some arrangement of its keys.
necessary_piece_indices(requirements, order) ==
    IF order = <<>> THEN <<>>
    ELSE Repeat(Head(order), requirements[Head(order)]) \o
         necessary_piece_indices(requirements, Tail(order))

\* The start positions, row by row, at which every point of the permutation
\* falls inside the grid
valid_positions_for_permutation(width, height, permutation) ==
    LET fits(pos) ==
            \A k \in 1..Len(permutation) :
                /\ pos[1] + permutation[k][1] >= 0
                /\ pos[1] + permutation[k][1] < height
                /\ pos[2] + permutation[k][2] >= 0
                /\ pos[2] + permutation[k][2] < width
    IN  SelectSeq([i \in 1..(height * width) |-> <<(i - 1) \div width, (i - 1) % width>>],
                  fits)

\* row_columns listing the piece's column alone: a placement takes no cell.
row_columns_piece_only(width, piece_column, cell_column_start, permutation, pos) ==
    <<piece_column>>

\* row_columns naming, for every cell, the column of the first cell.
row_columns_first_cell(width, piece_column, cell_column_start, permutation, pos) ==
    <<piece_column>> \o
    [k \in 1..Len(permutation) |->
        cell_column_start
            + (pos[1] + permutation[1][1]) * width + (pos[2] + permutation[1][2])]

\* The column list of one placement: the piece's column, then the column of
\* each cell the permutation covers from the start position
row_columns(width, piece_column, cell_column_start, permutation, pos) ==
    <<piece_column>> \o
    [k \in 1..Len(permutation) |->
        cell_column_start
            + (pos[1] + permutation[k][1]) * width + (pos[2] + permutation[k][2])]

RECURSIVE Flatten(_)
\* The lists of a list of lists, one after the other
Flatten(ss) == IF ss = <<>> THEN <<>> ELSE Head(ss) \o Flatten(Tail(ss))

\* The column lists build_arena passes to add_row, in call order: for each
\* piece, for each permutation of its shape, for each valid position
placement_rows(width, height, piece_indices) ==
    LET cell_column_start == Len(piece_indices) + 1
        of_permutation(piece, permutation) ==
            LET positions == valid_positions_for_permutation(width, height, permutation)
            IN  [n \in 1..Len(positions) |->
                    row_columns(width, piece, cell_column_start, permutation, positions[n])]
        of_piece(piece) ==
            LET perms == permutations(piece_indices[piece])
            IN  Flatten([m \in 1..Len(perms) |-> of_permutation(piece, perms[m])])
    IN  Flatten([piece \in 1..Len(piece_indices) |-> of_piece(piece)])

\* Puzzle::build_arena: the arena after its add_column and add_row calls
build_arena(width, height, piece_indices) ==
    build_rows(build_columns(new, Len(piece_indices) + width * height),
               placement_rows(width, height, piece_indices))

\* total_cells_needed of find_solution_via_dlx
total_cells_needed(requirements) ==
    LET RECURSIVE sum(_)
        sum(keys) ==
            IF keys = {} THEN 0
            ELSE LET k == CHOOSE k \in keys : TRUE
                 IN  Len(permutations(k)[1]) * requirements[k] + sum(keys \ {k})
    IN  sum(DOMAIN requirements)

\* The arrangements of the set K: the orders in which a HashMap with the
\* keys K may be iterated
Orders(K) ==
    {o \in [1..Cardinality(K) -> K] : \A a, b \in DOMAIN o : a # b => o[a] # o[b]}

\* The requirements maps over the shapes that ask for MaxPieces pieces at most
Requirements ==
    {r \in UNION {[K -> 0..MaxPieces] : K \in SUBSET (DOMAIN ShapePoints)} :
        \A o \in Orders(DOMAIN r) : Len(necessary_piece_indices(r, o)) <= MaxPieces}

\* Puzzle::build_arena on a puzzle read from the input: Arena::new(), one
\* add_column(true) per piece, one add_column(false) per cell, one add_row per
\* placement.  The id add_column returns for the i-th piece is i.
BuildArena ==
    /\ phase = "build"
    /\ nodes = new
    /\ puzzle = <<>>
    /\ \E width \in 0..MaxWidth, height \in 0..MaxHeight, requirements \in Requirements :
        \E order \in Orders(DOMAIN requirements) :
            LET piece_indices == necessary_piece_indices(requirements, order)
            IN  /\ ~IsHung(build_arena(width, height, piece_indices))
                /\ nodes' = build_arena(width, height, piece_indices)
                /\ primary_columns' = Len(piece_indices)
                /\ cols' = [c \in 1..(Len(piece_indices) + width * height) |->
                               c <= Len(piece_indices)]
                /\ rows' = placement_rows(width, height, piece_indices)
                /\ puzzle' = <<[width |-> width, height |-> height,
                                requirements |-> requirements,
                                piece_indices |-> piece_indices]>>
    /\ UNCHANGED <<phase, calls, stack, ret, exhausted, nest, first, log, counting, unlinked>>

NextPacking ==
    \/ BuildArena
    \/ Solve
    \/ SolveStepNoLimit

SpecPacking == Init /\ [][NextPacking]_vars

----------------------------------------------------------------------------
\* part_one: one task per puzzle, run by par_iter().for_each in any order and
\* any interleaving; for_each returns when every task has ended.
\*
\* A puzzle is read here by the two numbers the early check compares: the
\* cells its pieces need and width * height.
PuzzleInputs == [cells_needed : 0..MaxCells, grid_size : 0..MaxCells]

\* fetch_add writing the sum of val and some earlier value of the counter:
\* a load and a store between which other tasks may run.
fetch_add_racy(value, val) ==
    {[previous |-> p, value |-> p + val] : p \in 0..value}

\* AtomicUsize::fetch_add: one read-modify-write on the latest value, which
\* returns the previous value.  The one outcome, as a set.
fetch_add(value, val) == {[previous |-> value, value |-> value + val]}

\* The values find_solution_via_ilp may return once the early check passed
IlpResults == {None, Some(TRUE), Some(FALSE)}

\* part_one up to for_each: the input is read, the counters are zero.
PartOne ==
    /\ total = None
    /\ phase = "build" /\ nodes = new
    /\ \E n \in 0..MaxPuzzles :
        \E puzzles \in [1..n -> PuzzleInputs] :
            /\ total' = Some(n)
            /\ tasks' = [i \in 1..n |->
                            [puzzle |-> puzzles[i], pc |-> "check", ilp |-> <<>>,
                             solved_adds |-> 0, completed_adds |-> 0, done |-> None]]
    /\ solved' = 0
    /\ completed' = 0
    /\ UNCHANGED <<nodes, primary_columns, cols, rows, phase, calls, stack, ret, exhausted,
                   nest, first, puzzle, log, stderr, answer, unlinked>>

UnchangedArena ==
    UNCHANGED <<nodes, primary_columns, cols, rows, phase, calls, stack, ret, exhausted,
                nest, first, puzzle, log, unlinked>>

\* The early check fails: the task goes on to the completed counter.
TaskTooManyCells(i) ==
    /\ tasks[i].pc = "check"
    /\ ~(tasks[i].puzzle.cells_needed <= tasks[i].puzzle.grid_size)
    /\ tasks' = [tasks EXCEPT ![i].pc = "completed"]
    /\ UNCHANGED <<solved, completed, total, stderr, answer>>
    /\ UnchangedArena

\* The early check passes and find_solution_via_ilp returns.
TaskIlp(i) ==
    /\ tasks[i].pc = "check"
    /\ tasks[i].puzzle.cells_needed <= tasks[i].puzzle.grid_size
    /\ \E r \in IlpResults :
        tasks' = [tasks EXCEPT ![i].ilp = Some(r),
                               ![i].pc = IF r = Some(TRUE) THEN "solved" ELSE "completed"]
    /\ UNCHANGED <<solved, completed, total, stderr, answer>>
    /\ UnchangedArena

\* solved.fetch_add(1, Ordering::Relaxed)
TaskSolved(i) ==
    /\ tasks[i].pc = "solved"
    /\ \E r \in fetch_add(solved, 1) :
        /\ solved' = r.value
        /\ tasks' = [tasks EXCEPT ![i].pc = "completed",
                                  ![i].solved_adds = @ + 1]
    /\ UNCHANGED <<completed, total, stderr, answer>>
    /\ UnchangedArena

\* let done = completed.fetch_add(1, Ordering::Relaxed) + 1
TaskCompleted(i) ==
    /\ tasks[i].pc = "completed"
    /\ \E r \in fetch_add(completed, 1) :
        /\ completed' = r.value
        /\ tasks' = [tasks EXCEPT ![i].pc = "progress",
                                  ![i].completed_adds = @ + 1,
                                  ![i].done = Some(r.previous + 1)]
    /\ UNCHANGED <<solved, total, stderr, answer>>
    /\ UnchangedArena

\* if done % 50 == 0 || done == total { eprintln!(..) }: the relaxed load of
\* solved reads the latest value or an earlier one.
TaskProgress(i) ==
    /\ tasks[i].pc = "progress"
    /\ LET done == tasks[i].done[1]
       IN  IF done % 50 = 0 \/ done = total[1]
           THEN \E solvable \in 0..solved :
                    stderr' = Append(stderr, [done |-> done, total |-> total[1],
                                              solvable |-> solvable])
           ELSE stderr' = stderr
    /\ tasks' = [tasks EXCEPT ![i].pc = "end"]
    /\ UNCHANGED <<solved, completed, total, answer>>
    /\ UnchangedArena

\* for_each has returned, every task ended: Some(solved.load(..) as u64)
PartOneReturn ==
    /\ total # None
    /\ answer = None
    /\ \A i \in DOMAIN tasks : tasks[i].pc = "end"
    /\ answer' = Some(solved)
    /\ UNCHANGED <<solved, completed, total, tasks, stderr>>
    /\ UnchangedArena

NextPartOne ==
    \/ PartOne
    \/ \E i \in DOMAIN tasks : TaskTooManyCells(i)
    \/ \E i \in DOMAIN tasks : TaskIlp(i)
    \/ \E i \in DOMAIN tasks : TaskSolved(i)
    \/ \E i \in DOMAIN tasks : TaskCompleted(i)
    \/ \E i \in DOMAIN tasks : TaskProgress(i)
    \/ PartOneReturn

SpecPartOne == Init /\ [][NextPartOne]_vars

----------------------------------------------------------------------------
\* The instance as the caller stated it, read from the history of add_column
\* and add_row calls (not from the links).

RECURSIVE FirstNode(_)
\* The index add_row gave the first node of the j-th row: nodes are pushed in
\* call order after the root and the column headers.
FirstNode(j) == IF j = 1 THEN 1 + Len(cols) ELSE FirstNode(j - 1) + Len(rows[j - 1])

\* The rows a node index belongs to (one row for a row node, none otherwise)
RowsOfNode(id) ==
    {j \in 1..Len(rows) : FirstNode(j) <= id /\ id < FirstNode(j) + Len(rows[j])}

Touches(j, c) == \E k \in 1..Len(rows[j]) : rows[j][k] = c

\* S, a set of row numbers, covers every primary column exactly once and every
\* secondary column at most once
IsCover(S) ==
    \A c \in ColumnIds :
        LET n == Cardinality({j \in S : Touches(j, c)})
        IN  IF cols[c] THEN n = 1 ELSE n <= 1

HasCover == \E S \in SUBSET (1..Len(rows)) : IsCover(S)

Finished == phase = "done"
Result == ret[1]
Ids == Result[1]
ChosenRows == UNION {RowsOfNode(Ids[i]) : i \in 1..Len(Ids)}

----------------------------------------------------------------------------
\* C1 (soundness): whenever solve / solve_with_limit returns Some(ids), with or
\* without a budget, every id names one row, the rows named are pairwise
\* distinct, every primary column is touched by exactly one of them and every
\* secondary column by at most one.
C1_Soundness ==
    (Finished /\ Result # None) =>
        /\ \A i \in 1..Len(Ids) : Cardinality(RowsOfNode(Ids[i])) = 1
        /\ \A i, j \in 1..Len(Ids) : i # j => RowsOfNode(Ids[i]) # RowsOfNode(Ids[j])
        /\ IsCover(ChosenRows)

\* A two-row solution that uses a secondary column and leaves a row out, found
\* under a budget.
C1_Witness ==
    /\ Finished /\ Result # None /\ calls # None
    /\ Len(Ids) = 2
    /\ \E c \in ColumnIds : ~cols[c] /\ \E j \in ChosenRows : Touches(j, c)
    /\ \E j \in 1..Len(rows) : j \notin ChosenRows

\* Scenario A: primary columns C1, C2, C3 and rows R1 = {C1}, R2 = {C1, C2},
\* R3 = {C2, C3}
ScenarioA ==
    /\ cols = <<TRUE, TRUE, TRUE>>
    /\ rows = << <<1>>, <<1, 2>>, <<2, 3>> >>

\* C2 (completeness): solve with no budget returns None exactly when no set of
\* rows covers every primary column once and every secondary column at most
\* once; on scenario A the rows returned are R1 and R3.
C2_Completeness ==
    (Finished /\ calls = None) =>
        /\ (Result = None) <=> ~HasCover
        /\ ScenarioA => (Result # None /\ ChosenRows = {1, 3})

\* None is returned for an instance in which every primary column has a row,
\* so the failure is found by search and not at the first column.
C2_Witness ==
    /\ Finished /\ calls = None /\ Result = None
    /\ Len(rows) = 3
    /\ \A c \in ColumnIds : cols[c] /\ \E j \in 1..Len(rows) : Touches(j, c)

----------------------------------------------------------------------------
\* C3 (cover/uncover round trip): in every state reached from a well-formed
\* construction by properly nested covers, for every column whose header is in
\* the header ring, cover_column(c) immediately followed by uncover_column(c)
\* leaves every field of every node as it was before the cover.
C3_CoverUncoverInverse ==
    (undone # <<>> /\ undone[1].immediate) => nodes = undone[1].before

\* A column covered and uncovered at once while another column is still
\* covered, where the cover unlinked at least one row node from its column.
C3_Witness ==
    /\ undone # <<>> /\ undone[1].immediate
    /\ covers # <<>>
    /\ \E n \in DOMAIN nodes :
        /\ undone[1].covered[n].down # undone[1].before[n].down
        /\ undone[1].before[n].column # undone[1].column

----------------------------------------------------------------------------
\* C4 (row identifiers): every id in the sequence solve returns is the index
\* of the first node add_row created for the chosen row, whichever of the
\* row's columns was the branching column.
C4_FirstNodeIds ==
    (Finished /\ Result # None) =>
        \A i \in 1..Len(Ids) : \E j \in 1..Len(rows) : Ids[i] = FirstNode(j)

\* The arena tests::test_solve writes out node by node
test_solve_nodes ==
    [i \in 0..8 |->
        << Node(3, 1, 0, 0, 0),
           Node(0, 2, 5, 4, 1), Node(1, 3, 7, 6, 2), Node(2, 0, 8, 8, 3),
           Node(4, 4, 1, 5, 1),
           Node(6, 6, 4, 1, 1), Node(5, 5, 2, 7, 2),
           Node(8, 8, 6, 2, 2), Node(7, 7, 3, 3, 3) >>[i + 1]]

\* C5 (the tests' expectation): on scenario A, whose arena built by
\* add_column/add_row is the one test_solve writes out, solve(0) returns
\* Some([4, 7]), the first nodes of R1 and R3.
C5_TestSolveResult ==
    ScenarioA =>
        /\ phase = "build" => (nodes = test_solve_nodes /\ primary_columns = 3)
        /\ (Finished /\ calls = None) => Result = Some(<<4, 7>>)

----------------------------------------------------------------------------
\* C6 (termination): on every well-formed instance, a solve with no budget
\* that has been called eventually returns; no traversal, row loop or
\* recursion runs forever.
C6_Termination == (phase = "solve" /\ calls = None) ~> Finished

\* A search with no budget that returned from three nested invocations.
C6_Witness ==
    /\ Finished /\ calls = None /\ Result # None
    /\ Len(Ids) = 3

----------------------------------------------------------------------------
----------------------------------------------------------------------------
\* C8 (budget exhaustion): if some invocation of solve_with_limit is entered
\* with a supplied budget whose remaining count is 0, the top-level call
\* returns None, whether or not the instance has an exact cover.
C8_BudgetExhaustion == (Finished /\ exhausted) => Result = None

\* The budget ran out on an instance that has an exact cover of two rows.
C8_Witness ==
    /\ Finished /\ exhausted /\ Result = None
    /\ \E c \in ColumnIds : cols[c]
    /\ \E S \in SUBSET (1..Len(rows)) :
        IsCover(S) /\ Cardinality(S) = 2 /\ \A j \in S : rows[j] # <<>>

----------------------------------------------------------------------------
\* C9 as stated (completeness test before budget test): an invocation entered
\* when no primary header is left in the header ring returns Some(empty
\* list) whatever the budget, a supplied budget of 0 included.
C9_CompleteBeforeLimit ==
    [][(Entering /\ HeadersRead /\ get_headers(nodes, primary_columns, TRUE) = <<>>)
            => ret' = Some(Some(<<>>))]_vars

\* C9 (budget test before completeness test): an invocation entered when no
\* primary header is left in the header ring returns None when a budget is
\* supplied and its remaining count is 0, and Some(empty list) otherwise
\* (no budget, or a remaining count above 0).
C9_LimitBeforeComplete ==
    [][(Entering /\ HeadersRead /\ get_headers(nodes, primary_columns, TRUE) = <<>>)
            => ret' = Some(IF LimitExceeded(calls) THEN None ELSE Some(<<>>))]_vars

\* An invocation entered below the top level with every primary column
\* covered and a supplied budget of 0 remaining has returned None.
C9_Witness ==
    /\ phase = "solve" /\ stack # <<>> /\ Top.pc = "call"
    /\ ret = Some(None)
    /\ exhausted /\ calls = Some(0)
    /\ get_headers(nodes, primary_columns, TRUE) = <<>>

----------------------------------------------------------------------------
\* C10 (None with budget left): if solve_with_limit returns None and the
\* remaining count of the supplied budget is above 0 after the call, no set
\* of rows is an exact cover of the instance.
C10_NoneWithBudgetLeft ==
    (Finished /\ calls # None /\ calls[1] > 0 /\ Result = None) => ~HasCover

\* None returned with budget left on an instance in which every primary
\* column has a row, after a search that tried rows.
C10_Witness ==
    /\ Finished /\ calls # None /\ calls[1] > 0 /\ Result = None
    /\ Len(rows) = 3
    /\ \A c \in ColumnIds : cols[c] /\ \E j \in 1..Len(rows) : Touches(j, c)

----------------------------------------------------------------------------
\* C11 (empty primary column): when the top-level call is entered and some
\* primary column in the header ring has no active row, the call returns None
\* at once: no column is covered, no recursive invocation is made and no
\* link field changes.
C11_EmptyPrimaryColumn ==
    [][(/\ Entering /\ Len(stack) = 1
        /\ HeadersRead
        /\ \E k \in 1..Len(get_headers(nodes, primary_columns, TRUE)) :
              get_column_nodes(nodes, get_headers(nodes, primary_columns, TRUE)[k]) = <<>>)
            => (phase' = "done" /\ stack' = <<>> /\ ret' = Some(None) /\ nodes' = nodes)]_vars

\* solve returned None on an instance whose first primary column has rows and
\* whose second primary column has none.
C11_Witness ==
    /\ Finished /\ calls = None /\ Result = None
    /\ Len(cols) >= 2 /\ cols[1] /\ cols[2]
    /\ \E j \in 1..Len(rows) : Touches(j, 1)
    /\ \A j \in 1..Len(rows) : ~Touches(j, 2)

----------------------------------------------------------------------------
\* Every index stored in the arena ns is the index of a node of ns: an index
\* read from a link or column field never falls outside the Vec.
InArena(ns) ==
    \A n \in DOMAIN ns :
        /\ ns[n].left \in DOMAIN ns /\ ns[n].right \in DOMAIN ns
        /\ ns[n].up \in DOMAIN ns /\ ns[n].down \in DOMAIN ns
        /\ ns[n].column \in DOMAIN ns

\* Every index held in a local of an active invocation is inside the arena.
LocalsInArena ==
    \A k \in 1..Len(stack) :
        /\ stack[k].column \in DOMAIN nodes
        /\ \A i \in 1..Len(stack[k].rows) : stack[k].rows[i] \in DOMAIN nodes
        /\ \A i \in 1..Len(stack[k].row_nodes) : stack[k].row_nodes[i] \in DOMAIN nodes

\* C12 (no fault on well-formed input): through every well-formed
\* construction (rows with an empty column list included) and every solve,
\* with any budget, the arena keeps its root (new_index - 1 does not
\* underflow), every index stored in a node or held by an invocation is inside
\* the arena, every traversal returns, and the remaining budget is never
\* decremented below 0.
C12_NoFault ==
    /\ NodesLen(nodes) >= 1
    /\ ~IsHung(nodes)
    /\ InArena(nodes)
    /\ LocalsInArena
    /\ calls # None => calls[1] \in 0..MaxBudget
    /\ phase = "solve" =>
          (get_headers_returns(nodes, primary_columns, TRUE) /\ HeadersRead)

\* A search under a budget that returned a row on an instance holding a row
\* with an empty column list.
C12_Witness ==
    /\ Finished /\ calls # None /\ Result # None /\ Len(Ids) >= 1
    /\ \E j \in 1..Len(rows) : rows[j] = <<>>

----------------------------------------------------------------------------
\* The horizontal rings of ns are doubly consistent.
HorizontalConsistent(ns) ==
    \A n \in DOMAIN ns : ns[ns[n].right].left = n /\ ns[ns[n].left].right = n

\* The vertical rings of ns are doubly consistent.
VerticalConsistent(ns) ==
    \A n \in DOMAIN ns : ns[ns[n].down].up = n /\ ns[ns[n].up].down = n

\* C13 (rings after construction): after every add_column and add_row of a
\* well-formed construction (columns first, then rows, no column repeated in
\* a row), every node n has left(right(n)) = n, right(left(n)) = n,
\* up(down(n)) = n and down(up(n)) = n.
C13_RingsAfterBuild ==
    phase = "build" =>
        (InArena(nodes) /\ HorizontalConsistent(nodes) /\ VerticalConsistent(nodes))

\* Three rows added, one of two nodes, with two rows in one column.
C13_Witness ==
    /\ phase = "build" /\ Len(rows) = 3
    /\ \E j \in 1..Len(rows) : Len(rows[j]) = 2
    /\ \E c \in ColumnIds : Cardinality({j \in 1..Len(rows) : Touches(j, c)}) >= 2

----------------------------------------------------------------------------
\* The two round trips of C14: left(right(n)) = n and up(down(n)) = n for
\* every node n of ns.
RingInvariant(ns) ==
    \A n \in DOMAIN ns : ns[ns[n].right].left = n /\ ns[ns[n].down].up = n

\* C14 as stated (rings after solve): once solve has returned, whatever the
\* outcome and the budget, every node n has left(right(n)) = n and
\* up(down(n)) = n.
C14_RingsAfterSolve == Finished => RingInvariant(nodes)

\* C14 (rings after a failed solve): once solve has returned, with or without
\* a budget, every node n has left(right(n)) = n and up(down(n)) = n exactly
\* when the result is None or Some(empty list), and after None the arena is
\* link for link the one the add_column and add_row calls built; after
\* Some of one row or more the columns covered on the way stay unlinked.
C14_RingsAfterFailedSolve ==
    Finished =>
        /\ RingInvariant(nodes) <=> (Result = None \/ Ids = <<>>)
        /\ Result = None => nodes = build_rows(build_columns(new, Len(cols)), rows)

\* None returned with no budget on an instance of three primary columns that
\* all have rows, one row of two nodes: columns were covered and uncovered.
C14_Witness ==
    /\ Finished /\ Result = None /\ calls = None
    /\ cols = <<TRUE, TRUE, TRUE>>
    /\ \A c \in ColumnIds : \E j \in 1..Len(rows) : Touches(j, c)
    /\ \E j \in 1..Len(rows) : Len(rows[j]) = 2

----------------------------------------------------------------------------
\* C15 (rings after construction in any order): after every add_column and
\* add_row, add_column after one or more add_row calls included, every row
\* ring, the header ring and every column ring is doubly consistent, and the
\* header added last is at the right end of the header ring (the root's left
\* neighbour, with the root to its right).
C15_RingsAnyOrder ==
    phase \in {"build", "late"} =>
        /\ HorizontalConsistent(nodes) /\ VerticalConsistent(nodes)
        /\ phase = "late" =>
              /\ nodes[0].left = NodesLen(nodes) - 1
              /\ nodes[NodesLen(nodes) - 1].right = 0

----------------------------------------------------------------------------
\* C16 (column ids and header ring): while all columns are added before any
\* row, the k-th add_column returns k (the arena then holds the root and k
\* headers, at indices 1..k), each header has up = down = itself, and the
\* header ring read rightwards from the root lists 1, 2, ..., k, the primary
\* ids first, and closes back on the root.
C16_ColumnIds ==
    (phase = "build" /\ rows = <<>>) =>
        /\ NodesLen(nodes) = Len(cols) + 1
        /\ \A c \in ColumnIds : nodes[c].up = c /\ nodes[c].down = c /\ nodes[c].column = c
        /\ get_headers_returns(nodes, primary_columns, FALSE)
        /\ get_headers(nodes, primary_columns, FALSE) = [k \in 1..Len(cols) |-> k]
        /\ get_headers(nodes, primary_columns, TRUE) = [k \in 1..primary_columns |-> k]
        /\ \A c \in ColumnIds : cols[c] <=> c <= primary_columns
        /\ nodes[IF cols = <<>> THEN 0 ELSE Len(cols)].right = 0

\* Two primary columns and a secondary one, no row yet.
C16_Witness == phase = "build" /\ rows = <<>> /\ cols = <<TRUE, TRUE, FALSE>>

----------------------------------------------------------------------------
\* The index add_row gave the k-th node of the j-th row
NodeOf(j, k) == FirstNode(j) + k - 1

RECURSIVE RowNodesOfColumn(_, _)
\* The nodes that the first j rows have in column c, in add_row call order
RowNodesOfColumn(c, j) ==
    IF j = 0 THEN <<>>
    ELSE RowNodesOfColumn(c, j - 1) \o
         (IF Touches(j, c)
          THEN <<NodeOf(j, CHOOSE k \in 1..Len(rows[j]) : rows[j][k] = c)>>
          ELSE <<>>)

\* C17 (add_row): after the add_row calls of a well-formed construction, each
\* row has exactly one node per listed column, in list order at consecutive
\* new indices; reading a column downwards from its header lists its row
\* nodes in add_row call order and comes back to the header; and reading
\* rightwards from a row's first node lists the row's other nodes in the
\* order of column_ids and comes back to the first node.
C17_AddRow ==
    phase = "build" =>
        /\ NodesLen(nodes) = FirstNode(Len(rows) + 1)
        /\ \A j \in 1..Len(rows) : \A k \in 1..Len(rows[j]) :
              nodes[NodeOf(j, k)].column = rows[j][k]
        /\ \A c \in ColumnIds :
              /\ traverse_returns(nodes, c, "down")
              /\ get_column_nodes(nodes, c) = RowNodesOfColumn(c, Len(rows))
        /\ \A j \in 1..Len(rows) :
              rows[j] # <<>> =>
                  /\ traverse_returns(nodes, NodeOf(j, 1), "right")
                  /\ get_row_nodes(nodes, NodeOf(j, 1)) =
                         [k \in 1..(Len(rows[j]) - 1) |-> NodeOf(j, k + 1)]

\* Three rows in one column, the last of them listing three columns in the
\* order 2, 3, 1.
C17_Witness ==
    /\ phase = "build" /\ Len(rows) = 3
    /\ \E c \in ColumnIds : \A j \in 1..Len(rows) : Touches(j, c)
    /\ rows[3] = <<2, 3, 1>>

----------------------------------------------------------------------------
\* C18 (primary_columns): no operation decreases primary_columns; it grows by
\* exactly 1 on add_column(true) and is unchanged by add_column(false),
\* add_row, cover_column, uncover_column and every step of solve; and in a
\* well-formed construction a column is primary exactly when its id is at
\* most primary_columns.
C18_PrimaryColumns ==
    /\ [](\A c \in ColumnIds : cols[c] <=> c <= primary_columns)
    /\ [][/\ primary_columns' >= primary_columns
          /\ primary_columns' =
                IF cols' # cols /\ cols'[Len(cols')]
                THEN primary_columns + 1 ELSE primary_columns]_vars

\* Two primary columns and a secondary one, after a solve that returned rows.
C18_Witness ==
    /\ cols = <<TRUE, TRUE, FALSE>> /\ primary_columns = 2
    /\ Finished /\ Result # None /\ Len(Ids) >= 1

----------------------------------------------------------------------------
\* The number of active rows of column c in the arena ns: the nodes of its
\* vertical ring, the header excluded.
ActiveRows(ns, c) == Len(get_column_nodes(ns, c))

\* The nodes of the row the row loop takes next, the node in the branching
\* column first.
SelectedRow == <<Top.rows[Top.i]>> \o get_row_nodes(nodes, Top.rows[Top.i])

\* The arena as it was when the innermost invocation was entered, before it
\* covered its branching column.
BeforeSelection == uncover_column(nodes, Top.column)

\* C19 as stated (cardinality decreases on selection): when the search
\* selects a row, every column the row touches, the branching column
\* included, has strictly fewer active rows than before the branching column
\* was covered.
C19_EveryColumnDecreases ==
    [][SolveTryRow =>
          \A k \in 1..Len(SelectedRow) :
              ActiveRows(nodes', nodes[SelectedRow[k]].column)
                  < ActiveRows(BeforeSelection, nodes[SelectedRow[k]].column)]_vars

\* C19 (cardinality on selection): when the search selects a row, every
\* column the row touches is unlinked from the header ring; every such column
\* other than the branching column has strictly fewer active rows than before
\* the branching column was covered; the branching column keeps every node of
\* its vertical ring, so its count is unchanged.
C19_OtherColumnsDecrease ==
    [][SolveTryRow =>
          \A k \in 1..Len(SelectedRow) :
              LET c == nodes[SelectedRow[k]].column
              IN  /\ \A h \in 1..Len(get_headers(nodes', primary_columns, FALSE)) :
                        get_headers(nodes', primary_columns, FALSE)[h] # c
                  /\ IF c = Top.column
                     THEN ActiveRows(nodes', c) = ActiveRows(BeforeSelection, c)
                     ELSE ActiveRows(nodes', c) < ActiveRows(BeforeSelection, c)]_vars

\* A row of two nodes has just been selected as the second row tried in its
\* column, and the recursive call is entered.
C19_Witness ==
    /\ phase = "solve" /\ Len(stack) >= 2 /\ Top.pc = "enter"
    /\ stack[Len(stack) - 1].pc = "call"
    /\ stack[Len(stack) - 1].row_nodes # <<>>
    /\ stack[Len(stack) - 1].i = 2

----------------------------------------------------------------------------
\* C20 (more cells needed than the grid has): for every puzzle whose pieces
\* need more cells than width x height, solve on the matrix build_arena makes
\* of it returns None, which is what the early check of
\* find_solution_via_dlx returns without building the matrix.
C20_TooManyCells ==
    (Finished /\ puzzle # <<>>
        /\ total_cells_needed(puzzle[1].requirements) > puzzle[1].width * puzzle[1].height)
        => Result = None

\* Three pieces of two shapes that need five cells on a grid of four, each of
\* which fits the grid alone: solve returned None after placing pieces.
C20_Witness ==
    /\ Finished /\ puzzle # <<>> /\ Result = None
    /\ puzzle[1].width = 2 /\ puzzle[1].height = 2
    /\ total_cells_needed(puzzle[1].requirements) = 5
    /\ Len(puzzle[1].piece_indices) = 3

----------------------------------------------------------------------------
\* The position of column c in the header ring of the arena ns, walked to the
\* right from the root (0: c is not in the ring).
RingPosition(ns, c) ==
    LET H == get_headers(ns, primary_columns, FALSE)
    IN  IF \E h \in 1..Len(H) : H[h] = c
        THEN CHOOSE h \in 1..Len(H) : H[h] = c
        ELSE 0

\* The columns the caller declared primary whose header is in the header ring
LivePrimary(ns) == {c \in ColumnIds : cols[c] /\ RingPosition(ns, c) > 0}

\* C21 (branching column choice): in every invocation that branches, the
\* column covered is one the caller declared primary, its header is in the
\* header ring, no primary column in the ring has fewer active rows, and every
\* primary column in the ring with as few active rows comes later in the ring.
C21_BranchingColumn ==
    [][SolveBranch =>
          LET column == stack'[Len(stack)].column
          IN  /\ column \in LivePrimary(nodes)
              /\ \A c \in LivePrimary(nodes) :
                    /\ ActiveRows(nodes, column) <= ActiveRows(nodes, c)
                    /\ (ActiveRows(nodes, column) = ActiveRows(nodes, c) /\ c # column)
                          => RingPosition(nodes, column) < RingPosition(nodes, c)]_vars

\* A nested invocation has branched on column 2 while column 3, a primary
\* column with as many active rows, was in the header ring behind it.
C21_Witness ==
    /\ phase = "solve" /\ Len(stack) = 2 /\ Top.pc = "loop" /\ Top.i = 1
    /\ cols = <<TRUE, TRUE, TRUE>>
    /\ stack[1].column = 1
    /\ Top.column = 2
    /\ ActiveRows(BeforeSelection, 3) = ActiveRows(BeforeSelection, 2)
    /\ RingPosition(BeforeSelection, 3) > 0

----------------------------------------------------------------------------
\* Reading the log.

\* The index of the last entry of the log made at depth d by the call op
\* (0: there is none)
LastIndex(op, d) ==
    LET S == {e \in 1..Len(log) : log[e].op = op /\ log[e].depth = d}
    IN  IF S = {} THEN 0 ELSE CHOOSE e \in S : \A f \in S : f <= e

RECURSIVE RowsSince(_, _)
\* The rows taken at depth d by the entries of the log after index a, in order
RowsSince(a, d) ==
    IF a >= Len(log) THEN <<>>
    ELSE LET S == {e \in (a + 1)..Len(log) : log[e].op = "row" /\ log[e].depth = d}
         IN  IF S = {} THEN <<>>
             ELSE LET e == CHOOSE e \in S : \A f \in S : e <= f
                  IN  <<log[e].arg>> \o RowsSince(e, d)

\* The number of the row a row node belongs to
RowNumber(id) == CHOOSE j \in RowsOfNode(id) : TRUE

\* s is an initial part of t
IsPrefix(s, t) == Len(s) <= Len(t) /\ \A k \in 1..Len(s) : s[k] = t[k]

\* C22 (row order and first success): while an invocation is in its row loop
\* the rows it has taken so far are, in order, the first active rows of its
\* branching column from the top; and when the search returns Some(ids), the
\* k-th id is the row last taken at depth k - 1, those rows were taken in
\* order of depth, after taking its row an invocation took no other row and
\* uncovered nothing, and the log ends with the returns of depths Len(ids)
\* down to 0, one after the other.
C22_RowOrderFirstSuccess ==
    /\ (phase = "solve" /\ stack # <<>> /\ Top.pc = "loop") =>
          LET a == LastIndex("call", Top.depth)
          IN  /\ log[a + 1].op = "cover"
              /\ log[a + 1].arg = Top.column
              /\ IsPrefix(RowsSince(a, Top.depth), get_column_nodes(nodes, log[a + 1].arg))
    /\ (Finished /\ Result # None) =>
          /\ \A k \in 1..Len(Ids) :
                /\ LastIndex("row", k - 1) > 0
                /\ Ids[k] = log[LastIndex("row", k - 1)].arg
                /\ k > 1 => LastIndex("row", k - 2) < LastIndex("row", k - 1)
                /\ \A e \in (LastIndex("row", k - 1) + 1)..Len(log) :
                      log[e].depth = k - 1 => log[e].op \in {"cover", "return"}
          /\ \A k \in 0..Len(Ids) :
                LET e == Len(log) - k
                IN  /\ log[e].op = "return"
                    /\ log[e].depth = k
                    /\ log[e].arg = Some(SubSeq(Ids, k + 1, Len(Ids)))

\* The search succeeded with the second row of its branching column, a row of
\* two nodes, after the first had failed: the id returned is the second
\* row's.
C22_Witness ==
    /\ Finished /\ Result # None /\ Len(Ids) = 1
    /\ Len(RowsSince(0, 0)) = 2
    /\ Ids[1] = RowsSince(0, 0)[2]
    /\ Len(rows) = 3 /\ Len(rows[RowNumber(Ids[1])]) = 2

----------------------------------------------------------------------------
RECURSIVE WellNested(_, _)
\* From entry e of the log on, with `pending` the covers not yet undone
\* (oldest first): every uncover_column is of the column of the last pending
\* cover, made by the same invocation.
WellNested(e, pending) ==
    IF e > Len(log) THEN TRUE
    ELSE IF log[e].op = "cover" THEN WellNested(e + 1, Append(pending, log[e]))
    ELSE IF log[e].op = "uncover"
         THEN IF pending = <<>> THEN FALSE
              ELSE /\ pending[Len(pending)].arg = log[e].arg
                   /\ pending[Len(pending)].depth = log[e].depth
                   /\ WellNested(e + 1, SubSeq(pending, 1, Len(pending) - 1))
    ELSE WellNested(e + 1, pending)

RECURSIVE PendingAt(_)
\* The covers not yet undone after the first e entries of the log
PendingAt(e) ==
    IF e = 0 THEN <<>>
    ELSE IF log[e].op = "cover" THEN Append(PendingAt(e - 1), log[e])
    ELSE IF log[e].op = "uncover"
         THEN SubSeq(PendingAt(e - 1), 1, Len(PendingAt(e - 1)) - 1)
    ELSE PendingAt(e - 1)

\* The columns of the row of the row node id other than the node's own, from
\* the node to the right, as the caller listed them
OtherColumns(id) ==
    LET j == RowNumber(id)
        n == Len(rows[j])
        p == id - FirstNode(j) + 1
    IN  [k \in 1..(n - 1) |-> rows[j][((p - 1 + k) % n) + 1]]

RECURSIVE Replay(_, _)
\* The arena after the cover_column and uncover_column calls of the log
\* entries evs, made in order on the arena ns
Replay(ns, evs) ==
    IF evs = <<>> THEN ns
    ELSE IF Head(evs).op = "cover" THEN Replay(cover_column(ns, Head(evs).arg), Tail(evs))
    ELSE IF Head(evs).op = "uncover" THEN Replay(uncover_column(ns, Head(evs).arg), Tail(evs))
    ELSE Replay(ns, Tail(evs))

\* C23 (LIFO discipline): at every step of a search, the cover_column and
\* uncover_column calls made so far are nested: every uncover_column(c) is of
\* the column of the most recent cover not yet undone, made by the same
\* invocation; the covers that follow the taking of a row are of the row's
\* other columns from left to right, so that their uncovers come in the
\* reverse order and before the uncover of the branching column; and these
\* calls, made in this order, are what changed the arena.
C23_LIFO ==
    [][(log' # log /\ phase = "solve") =>
          /\ WellNested(1, <<>>)'
          /\ \A r \in (Len(log) + 1)..Len(log') :
                log'[r].op = "row" =>
                    /\ Len(log') = r + Len(OtherColumns(log'[r].arg))
                    /\ \A k \in 1..Len(OtherColumns(log'[r].arg)) :
                          /\ log'[r + k].op = "cover"
                          /\ log'[r + k].depth = log'[r].depth
                          /\ log'[r + k].arg = OtherColumns(log'[r].arg)[k]
          /\ nodes' = Replay(nodes, SubSeq(log', Len(log) + 1, Len(log')))]_vars

\* A row of three columns was taken and its recursive call returned None:
\* its two other columns were covered left to right and have just been
\* uncovered right to left, the branching column alone still covered.
C23_Witness ==
    /\ phase = "solve" /\ Len(stack) = 1 /\ Top.pc = "loop" /\ Top.i = 2
    /\ Len(log) >= 5
    /\ log[Len(log)].op = "uncover" /\ log[Len(log) - 1].op = "uncover"
    /\ log[Len(log)].arg # log[Len(log) - 1].arg
    /\ Len(PendingAt(Len(log))) = 1
    /\ PendingAt(Len(log))[1].arg = Top.column

----------------------------------------------------------------------------
\* The arena as the add_column and add_row calls of the history built it
Built == build_rows(build_columns(new, Len(cols)), rows)

\* The arena as it was when the invocation at depth d that the log shows last
\* was entered: the arena built, after the cover_column and uncover_column
\* calls made before that invocation was called.
EntryArena(d) == Replay(Built, SubSeq(log, 1, LastIndex("call", d) - 1))

\* C24 (failure restores the matrix): when an invocation has just returned
\* None, whether at a dead end, after all its rows failed or on an exhausted
\* budget, every node of the arena is as it was when the invocation was
\* entered; after a top-level None the arena is the arena as built.
C24_FailureRestores ==
    /\ (phase \in {"solve", "done"} /\ log # <<>>
          /\ log[Len(log)].op = "return" /\ log[Len(log)].arg = None)
          => nodes = EntryArena(log[Len(log)].depth)
    /\ (Finished /\ Result = None) => nodes = Built

\* A nested invocation has just returned None after every row of its
\* branching column failed, the calls below it having found the budget
\* exhausted: its last call was the uncover of its branching column, and the
\* arena it restored is not the arena as built.
C24_Witness ==
    /\ phase = "solve" /\ Len(log) >= 2 /\ exhausted
    /\ log[Len(log)].op = "return" /\ log[Len(log)].arg = None
    /\ log[Len(log)].depth = 1
    /\ log[Len(log) - 1].op = "uncover"
    /\ nodes # Built

----------------------------------------------------------------------------
\* C25 (abort on exhaustion): once an invocation has been called with the
\* budget at 0, and so has returned None at once, the search takes no further
\* row and makes no further cover_column call.
C25_AbortOnExhaustion ==
    \A e \in 1..Len(log) :
        (log[e].op = "call" /\ log[e].arg = Some(0)) =>
            \A f \in (e + 1)..Len(log) : log[f].op \notin {"row", "cover"}

----------------------------------------------------------------------------
IsCall(e) == e.op = "call"

\* The budget each invocation of the search was called with, in call order
CallArgs == [k \in 1..Len(SelectSeq(log, IsCall)) |-> SelectSeq(log, IsCall)[k].arg]

\* The budget an invocation called with the budget c leaves
After(c) == IF c[1] > 0 THEN Some(c[1] - 1) ELSE Some(0)

\* C26 (budget accounting): in a search with a supplied budget n, every
\* invocation is called with a budget of 0 or more; the budget a call finds is
\* the one the call before it found, less 1 if that was above 0 and 0 if it
\* was 0, whatever was covered or uncovered in between; the budget now is what
\* the last call left; and at most n invocations found the budget above 0.
C26_BudgetAccounting ==
    (phase \in {"solve", "done"} /\ calls # None) =>
        /\ calls[1] >= 0
        /\ \A k \in 1..Len(CallArgs) :
              /\ CallArgs[k] # None
              /\ CallArgs[k][1] >= 0
              /\ k > 1 => CallArgs[k] = After(CallArgs[k - 1])
        /\ CallArgs # <<>> =>
              /\ calls = After(CallArgs[Len(CallArgs)])
              /\ Cardinality({k \in 1..Len(CallArgs) : CallArgs[k][1] > 0}) <= CallArgs[1][1]

\* A search with a budget of 2 in which four invocations were called: the
\* last two found the budget at 0, with covers and uncovers in between.
C26_Witness ==
    /\ phase \in {"solve", "done"} /\ calls = Some(0)
    /\ Len(CallArgs) = 4
    /\ CallArgs = <<Some(2), Some(1), Some(0), Some(0)>>
    /\ \E e \in 1..Len(log) : log[e].op = "uncover"

----------------------------------------------------------------------------
\* C27 (progress measure): when an invocation makes its recursive call, fewer
\* primary column headers are in the header ring than were when the calling
\* invocation was entered.
C27_ProgressMeasure ==
    [][SolveTryRow =>
          Cardinality(LivePrimary(nodes'))
              < Cardinality(LivePrimary(EntryArena(Top.depth)))]_vars

\* Three primary columns: the invocation at depth 0 was entered with three
\* headers in the ring, the one at depth 1 with two, and the one at depth 2
\* has just been called with one.
C27_Witness ==
    /\ phase = "solve" /\ Len(stack) = 3 /\ Top.pc = "enter"
    /\ cols = <<TRUE, TRUE, TRUE>>
    /\ Cardinality(LivePrimary(EntryArena(0))) = 3
    /\ Cardinality(LivePrimary(EntryArena(1))) = 2
    /\ Cardinality(LivePrimary(nodes)) = 1

----------------------------------------------------------------------------
----------------------------------------------------------------------------
\* The node x is in the vertical ring of its column in the arena ns, read
\* downwards or upwards from the header
Linked(ns, x) ==
    IF \E i \in 1..Len(get_column_nodes(ns, ns[x].column)) :
           get_column_nodes(ns, ns[x].column)[i] = x
    THEN TRUE
    ELSE \E i \in 1..Len(reverse_column_nodes(ns, ns[x].column)) :
             reverse_column_nodes(ns, ns[x].column)[i] = x

\* C29 (effect of cover_column(c)): after cover_column(c), called while header
\* c is in the header ring, header c is not in the header ring; for every row
\* with a node in column c's vertical ring, every other node of the row is in
\* its column's vertical ring neither downwards nor upwards; column c's
\* vertical ring lists the same nodes with the same up and down fields; and
\* the left and right fields of every row node are as before.
C29_CoverEffect ==
    [][CoverColumn =>
          \E c \in {covers'[Len(covers')].column} :
              /\ RingPosition(nodes, c) > 0
              /\ RingPosition(nodes', c) = 0
              /\ \A i \in 1..Len(get_column_nodes(nodes, c)) :
                    \E x \in {get_column_nodes(nodes, c)[i]} :
                        \A k \in 1..Len(rows[RowNumber(x)]) :
                            NodeOf(RowNumber(x), k) # x
                                => ~Linked(nodes', NodeOf(RowNumber(x), k))
              /\ get_column_nodes(nodes', c) = get_column_nodes(nodes, c)
              /\ reverse_column_nodes(nodes', c) = reverse_column_nodes(nodes, c)
              /\ nodes'[c].up = nodes[c].up /\ nodes'[c].down = nodes[c].down
              /\ \A i \in 1..Len(get_column_nodes(nodes, c)) :
                    \E x \in {get_column_nodes(nodes, c)[i]} :
                        nodes'[x].up = nodes[x].up /\ nodes'[x].down = nodes[x].down
              /\ \A x \in (Len(cols) + 1)..(NodesLen(nodes) - 1) :
                    nodes'[x].left = nodes[x].left /\ nodes'[x].right = nodes[x].right]_vars

\* A second column has just been covered while a first is still covered: it
\* had two rows in its vertical ring, each with a node in another column.
C29_Witness ==
    /\ phase = "cover" /\ Len(covers) = 2 /\ covers[2].fresh
    /\ Len(get_column_nodes(covers[2].before, covers[2].column)) = 2
    /\ \A i \in 1..2 :
          Len(rows[RowNumber(get_column_nodes(covers[2].before, covers[2].column)[i])]) = 2

----------------------------------------------------------------------------
RECURSIVE TotalIds(_)
\* The number of column ids passed to the add_row calls rs
TotalIds(rs) == IF rs = <<>> THEN 0 ELSE Len(Head(rs)) + TotalIds(Tail(rs))

\* Scenario B, the instance of test_building
ScenarioB ==
    /\ cols = <<TRUE, TRUE, TRUE, FALSE, FALSE>>
    /\ rows = << <<1, 5>>, <<1, 2>>, <<2, 3>> >>

\* C30 (only link fields change): every step that is not a call of add_column
\* or add_row, that is a call of cover_column or uncover_column, the call of
\* solve or a step of the search, leaves the length of
\* the arena, the column field of every node and primary_columns as they
\* were; after every step the length of the arena is 1 + the number of
\* add_column calls + the number of column ids passed to add_row, which is 12
\* on scenario B, before and after solve.
C30_OnlyLinksChange ==
    [][/\ (cols' = cols /\ rows' = rows) =>
            /\ DOMAIN nodes' = DOMAIN nodes
            /\ \A i \in DOMAIN nodes : nodes'[i].column = nodes[i].column
            /\ primary_columns' = primary_columns
       /\ NodesLen(nodes') = 1 + Len(cols') + TotalIds(rows')
       /\ ScenarioB' => NodesLen(nodes') = 12]_vars

\* solve has returned a solution on scenario B: links of covered columns
\* differ from the arena as built, which has 12 nodes.
C30_Witness ==
    /\ ScenarioB /\ Finished /\ Result # None
    /\ NodesLen(nodes) = 12
    /\ nodes # Built

----------------------------------------------------------------------------
\* C31 (nested round trip): whenever uncover_column has undone the most
\* recent cover not yet undone, whatever covers and uncovers were nested
\* inside it, every field of every node is as it was before that cover; and
\* once every cover of a nest cover_column(c1), ..., cover_column(ck),
\* uncover_column(ck), ..., uncover_column(c1) is undone, the arena is the
\* arena as built.
C31_NestedRoundTrip ==
    /\ undone # <<>> => nodes = undone[1].before
    /\ (phase = "cover" /\ covers = <<>>) => nodes = Built

\* The first column covered has just been uncovered, the last cover of the
\* nest to be undone: other columns were covered and uncovered after its
\* cover, which had unlinked a row node of another column.
C31_Witness ==
    /\ phase = "cover" /\ covers = <<>> /\ Len(cols) = 3 /\ Len(rows) = 3
    /\ undone # <<>> /\ ~undone[1].immediate
    /\ \E n \in DOMAIN nodes :
          /\ undone[1].covered[n].down # nodes[n].down
          /\ nodes[n].column # undone[1].column

----------------------------------------------------------------------------
\* The columns whose header is not in the header ring of the arena ns
CoveredColumns(ns) == {c \in ColumnIds : RingPosition(ns, c) = 0}

RECURSIVE ActiveNodesOfColumn(_, _, _)
\* The nodes that the first j rows have in column c, in add_row call order,
\* the rows that touch a column of the set covered left out
ActiveNodesOfColumn(c, j, covered) ==
    IF j = 0 THEN <<>>
    ELSE ActiveNodesOfColumn(c, j - 1, covered) \o
         (IF Touches(j, c) /\ (\A d \in covered : ~Touches(j, d))
          THEN <<NodeOf(j, CHOOSE k \in 1..Len(rows[j]) : rows[j][k] = c)>>
          ELSE <<>>)

\* C32 (active-row invariant): at the entry of every invocation of the
\* search, for every column whose header is in the header ring, the column's
\* vertical ring read downwards from the header lists, in add_row order, the
\* nodes of the column whose row touches no column that is out of the header
\* ring, and no other node.
C32_ActiveRows ==
    Entering =>
        \A c \in ColumnIds \ CoveredColumns(nodes) :
            get_column_nodes(nodes, c)
                = ActiveNodesOfColumn(c, Len(rows), CoveredColumns(nodes))

\* An invocation is entered for the second row of the column at depth 0, the
\* first having failed: two columns are covered, and a column in the header
\* ring has lost one of its two nodes and kept the other.
C32_Witness ==
    /\ Entering /\ Len(stack) = 2 /\ stack[1].i = 2
    /\ Cardinality(CoveredColumns(nodes)) = 2
    /\ \E c \in ColumnIds \ CoveredColumns(nodes) :
          /\ Len(get_column_nodes(nodes, c)) = 1
          /\ Len(RowNodesOfColumn(c, Len(rows))) = 2

----------------------------------------------------------------------------
\* C33 (state after success): after solve has returned Some on an instance
\* with one primary column or more, no primary column header is in the header
\* ring, and a second solve on the same arena returns Some of the empty list.
C33_StateAfterSuccess ==
    /\ (Finished /\ Result # None /\ primary_columns >= 1) => LivePrimary(nodes) = {}
    /\ (Finished /\ first # <<>> /\ first[1] # None /\ primary_columns >= 1)
          => Result = Some(<<>>)

\* A first solve returned two rows on three primary columns, and a second
\* solve on the arena it left has returned.
C33_Witness ==
    /\ Finished /\ first # <<>> /\ first[1] # None
    /\ Len(first[1][1]) = 2
    /\ primary_columns = 3
    /\ Result = Some(<<>>)
    /\ nodes # Built

----------------------------------------------------------------------------
\* C34 (no primary column): on an instance with no primary column, whatever
\* its secondary columns and rows, solve with no budget returns Some of the
\* empty list from its first invocation: the search made one call, covered
\* no column, and the arena is the arena as built.
C34_NoPrimaryColumn ==
    (Finished /\ calls = None /\ primary_columns = 0) =>
        /\ Result = Some(<<>>)
        /\ log = <<[op |-> "call", depth |-> 0, arg |-> None],
                   [op |-> "return", depth |-> 0, arg |-> Some(<<>>)]>>
        /\ nodes = Built

\* solve has returned on three secondary columns and three rows, two of them
\* sharing a column.
C34_Witness ==
    /\ Finished /\ calls = None /\ primary_columns = 0
    /\ cols = <<FALSE, FALSE, FALSE>>
    /\ Len(rows) = 3
    /\ Touches(1, 1) /\ Touches(2, 1) /\ Len(rows[3]) = 2

----------------------------------------------------------------------------
\* C35 (depth does not matter): solve(depth) returns for every depth, and on
\* two arenas built by the same calls, solve(depth) and
\* solve_with_limit(depth', no budget) with any two depths return the same
\* result and leave the same arena.
C35_DepthIndependent ==
    /\ phase # "panic"
    /\ (Finished /\ first # <<>>) => (Result = first[1] /\ nodes = first[2])

----------------------------------------------------------------------------
\* C36 (build_arena is well formed): in the instance build_arena produces,
\* every add_column(true) precedes every add_column(false), every add_column
\* precedes every add_row (the headers are the nodes 1..columns, the row
\* nodes follow), and every row is the primary column of its piece followed
\* by pairwise distinct existing secondary columns, one per point of the
\* piece's shape, each of id (number of primary columns + 1) + row * width +
\* col for a cell (row, col) of the grid.
C36_WellFormedInstance ==
    puzzle # <<>> =>
        LET width == puzzle[1].width
            height == puzzle[1].height
            piece_indices == puzzle[1].piece_indices
            pieces == Len(piece_indices)
        IN  /\ primary_columns = pieces
            /\ Len(cols) = pieces + width * height
            /\ \A a, b \in DOMAIN cols : (a < b /\ cols[b]) => cols[a]
            /\ \A c \in DOMAIN cols : cols[c] <=> c <= pieces
            /\ \A i \in DOMAIN nodes \ {0} : (nodes[i].column = i) <=> i <= Len(cols)
            /\ \A j \in DOMAIN rows :
                /\ Len(rows[j]) >= 1
                /\ rows[j][1] \in 1..pieces
                /\ Len(rows[j]) - 1 = Len(ShapePoints[piece_indices[rows[j][1]]])
                /\ \A k \in 2..Len(rows[j]) :
                    /\ rows[j][k] \in DOMAIN cols
                    /\ ~cols[rows[j][k]]
                    /\ \E r \in 0..(height - 1), c \in 0..(width - 1) :
                           rows[j][k] = (pieces + 1) + r * width + c
                /\ \A a, b \in 2..Len(rows[j]) : a # b => rows[j][a] # rows[j][b]

\* build_arena has run on a 2 x 2 grid with two pieces or more, one of them
\* the corner of three cells, and a placement of it takes the cells (0, 0),
\* (1, 0) and (1, 1).
C36_Witness ==
    /\ puzzle # <<>>
    /\ puzzle[1].width = 2 /\ puzzle[1].height = 2
    /\ Len(puzzle[1].piece_indices) >= 2
    /\ \E j \in DOMAIN rows :
        /\ puzzle[1].piece_indices[rows[j][1]] = 2
        /\ rows[j] = <<rows[j][1], primary_columns + 1, primary_columns + 3,
                       primary_columns + 4>>

----------------------------------------------------------------------------
\* C37 (part_one counts under parallelism): in every interleaving of the
\* tasks, each counter is the number of increments the tasks made on it, the
\* values the completed counter returned are 1..completed with none twice, a
\* task that ended incremented completed once and solved at most once, and
\* the value returned is the number of puzzles that passed the cell check and
\* for which find_solution_via_ilp returned Some(true).
C37_ParallelCount ==
    LET Sum(f) ==
            LET RECURSIVE sum(_)
                sum(n) == IF n = 0 THEN 0 ELSE tasks[n][f] + sum(n - 1)
            IN  sum(Len(tasks))
        Feasible ==
            {i \in DOMAIN tasks :
                /\ tasks[i].puzzle.cells_needed <= tasks[i].puzzle.grid_size
                /\ tasks[i].ilp = Some(Some(TRUE))}
    IN  /\ solved = Sum("solved_adds")
        /\ completed = Sum("completed_adds")
        /\ {tasks[i].done[1] : i \in {j \in DOMAIN tasks : tasks[j].done # None}}
              = 1..completed
        /\ \A i, j \in DOMAIN tasks :
              (i # j /\ tasks[i].done # None) => tasks[i].done # tasks[j].done
        /\ \A i \in DOMAIN tasks :
              /\ tasks[i].solved_adds <= 1
              /\ tasks[i].completed_adds <= 1
              /\ tasks[i].pc \in {"progress", "end"} =>
                    /\ tasks[i].completed_adds = 1
                    /\ tasks[i].solved_adds = IF i \in Feasible THEN 1 ELSE 0
        /\ answer # None =>
              /\ answer = Some(Cardinality(Feasible))
              /\ completed = total[1]
              /\ \A i \in DOMAIN tasks : tasks[i].pc = "end"

\* part_one has returned 2 on three puzzles, one of them failing the cell
\* check, and the task that completed last was not the last puzzle.
C37_Witness ==
    /\ total = Some(3)
    /\ answer = Some(2)
    /\ \E i \in DOMAIN tasks :
          ~(tasks[i].puzzle.cells_needed <= tasks[i].puzzle.grid_size)
    /\ tasks[1].done = Some(3)
    /\ tasks[3].done = Some(1)

----------------------------------------------------------------------------
\* The list without the entries equal to x, the others in their order
Without(list, x) == SelectSeq(list, LAMBDA y : y # x)

\* Between remove and restore of node index, the traversals of the ring
\* named: every one that starts in Starts returns, and returns the list it
\* returned before without index.
Between(Starts) ==
    LET index == unlinked[1].index
        before == unlinked[1].before
    IN  IF unlinked[1].ring = "horizontal"
        THEN /\ 0 \in Starts =>
                   \A primary \in BOOLEAN :
                       /\ get_headers_returns(nodes, primary_columns, primary)
                       /\ get_headers(nodes, primary_columns, primary)
                             = Without(get_headers(before, primary_columns, primary), index)
             /\ \A s \in Starts :
                   /\ traverse_returns(nodes, s, "right")
                   /\ get_row_nodes(nodes, s) = Without(get_row_nodes(before, s), index)
        ELSE \A s \in Starts :
                   /\ traverse_returns(nodes, s, "down")
                   /\ get_column_nodes(nodes, s)
                         = Without(get_column_nodes(before, s), index)

\* After restore, get_headers, get_row_nodes and get_column_nodes return what
\* they returned before the removal, and every link is as it was.
Relinked ==
    LET before == unlinked[1].before
    IN  /\ \A primary \in BOOLEAN :
              get_headers(nodes, primary_columns, primary)
                  = get_headers(before, primary_columns, primary)
        /\ \A s \in DOMAIN nodes :
              /\ get_row_nodes(nodes, s) = get_row_nodes(before, s)
              /\ get_column_nodes(nodes, s) = get_column_nodes(before, s)
        /\ nodes = before

\* C38 (unlink/relink round trip): for every node n linked in its ring,
\* remove_horizontal(n) then restore_horizontal(n), and remove_vertical(n)
\* then restore_vertical(n), give back the lists get_headers, get_row_nodes
\* and get_column_nodes returned before; between the two calls every
\* traversal of the ring that starts at another node than n (get_headers
\* starts at the root, get_column_nodes(c) at header c, get_row_nodes(s) at
\* s) returns its former list without n.  A traversal that starts at n
\* itself never lists n; the code makes none between the two calls.
C38_UnlinkRelink ==
    unlinked # <<>> =>
        IF unlinked[1].restored THEN Relinked
        ELSE Between(DOMAIN nodes \ {unlinked[1].index})

\* A row node of a column of two nodes or more, among three columns, was
\* removed from its column and restored.
C38_Witness ==
    /\ unlinked # <<>>
    /\ unlinked[1].restored
    /\ unlinked[1].ring = "vertical"
    /\ unlinked[1].index > Len(cols)
    /\ Len(cols) = 3
    /\ Len(get_column_nodes(nodes, nodes[unlinked[1].index].column)) >= 2

====
